---- MODULE Spec2Model ----
(***************************************************************************)
(* CoreRoute: the request dispatch engine of the router (route tables,     *)
(* pattern compilation, first-match dispatch, CORS headers, the static     *)
(* file resolver and its filesystem callbacks).                            *)
(*                                                                         *)
(* Strings of the program that the code takes apart (route patterns,       *)
(* request URLs, file paths) are sequences of one-character strings, so    *)
(* that splitting, joining, normalising and matching are computed.         *)
(* Strings the code only copies (bodies, header names and values) are      *)
(* plain strings.                                                          *)
(***************************************************************************)
EXTENDS Integers, Sequences, FiniteSets, TLC

(***************************************************************************)
(* String helpers (JavaScript built-ins used by the code)                  *)
(***************************************************************************)

\* String.prototype.split(sep) for a one-character separator.
RECURSIVE Split(_, _)
Split(s, sep) ==
    IF \A i \in 1..Len(s) : s[i] # sep
    THEN <<s>>
    ELSE LET i == CHOOSE k \in 1..Len(s) :
                      s[k] = sep /\ \A j \in 1..(k - 1) : s[j] # sep
         IN  <<SubSeq(s, 1, i - 1)>> \o Split(SubSeq(s, i + 1, Len(s)), sep)

\* Array.prototype.join(sep).
RECURSIVE Join(_, _)
Join(parts, sep) ==
    IF Len(parts) = 0 THEN <<>>
    ELSE IF Len(parts) = 1 THEN parts[1]
    ELSE parts[1] \o <<sep>> \o Join(Tail(parts), sep)

\* String.prototype.startsWith(c) for a one-character prefix.
StartsWith(s, c) == Len(s) > 0 /\ s[1] = c

\* s contains the two-character substring c1 c2.
Contains2(s, c1, c2) == \E i \in 1..(Len(s) - 1) : s[i] = c1 /\ s[i + 1] = c2

Front(s) == SubSeq(s, 1, Len(s) - 1)

(***************************************************************************)
(* Pattern compiler: #pathToRegex                                          *)
(***************************************************************************)

\* routePattern.replace(/[/\\]/g, '/'): a backslash becomes a slash.
ReplaceBackslash(s) == [i \in 1..Len(s) |-> IF s[i] = "\\" THEN "/" ELSE s[i]]

\* The characters the literal-segment replace() escapes: [-/\\^$*+?.()|[\]{}]
RegexMeta == {"-", "/", "\\", "^", "$", "*", "+", "?", ".", "(", ")", "|",
              "[", "]", "{", "}"}

\* One character of a regular expression source: escaped, or not one of the
\* special characters, it matches itself; an unescaped '.' matches any
\* character.
AtomOf(c, escaped) ==
    IF ~escaped /\ c = "."
    THEN [atom |-> "any", c |-> c]
    ELSE [atom |-> "char", c |-> c]

\* Faulty variant of the literal branch: the segment goes into the regular
\* expression unescaped.
EscapeSegmentNone(segment) ==
    [i \in 1..Len(segment) |-> AtomOf(segment[i], FALSE)]

\* segment.replace(/[-/\\^$*+?.()|[\]{}]/g, '\\$&'): a literal segment after
\* escaping, as the atoms the regular expression holds.
EscapeSegment(segment) ==
    [i \in 1..Len(segment) |-> AtomOf(segment[i], segment[i] \in RegexMeta)]

\* The map() callback of #pathToRegex: the regex piece of one segment.
\* A piece with kind "empty" is the empty string the filter() drops.
SegmentRegex(segment) ==
    IF StartsWith(segment, ":")
    THEN [kind |-> "param", name |-> Tail(segment), atoms |-> <<>>]
    ELSE IF segment # <<>>
    THEN [kind |-> "lit", name |-> <<>>, atoms |-> EscapeSegment(segment)]
    ELSE [kind |-> "empty", name |-> <<>>, atoms |-> <<>>]

RECURSIVE DropEmptyPieces(_)
DropEmptyPieces(pieces) ==
    IF Len(pieces) = 0 THEN <<>>
    ELSE IF pieces[1].kind = "empty" THEN DropEmptyPieces(Tail(pieces))
    ELSE <<pieces[1]>> \o DropEmptyPieces(Tail(pieces))

\* Faulty variant of the push: the names come out last segment first.
RECURSIVE ParamNamesOfReversed(_)
ParamNamesOfReversed(pieces) ==
    IF Len(pieces) = 0 THEN <<>>
    ELSE IF pieces[1].kind = "param"
    THEN ParamNamesOfReversed(Tail(pieces)) \o <<pieces[1].name>>
    ELSE ParamNamesOfReversed(Tail(pieces))

\* paramNames.push(paramName), in the order of the segments.
RECURSIVE ParamNamesOf(_)
ParamNamesOf(pieces) ==
    IF Len(pieces) = 0 THEN <<>>
    ELSE IF pieces[1].kind = "param"
    THEN <<pieces[1].name>> \o ParamNamesOf(Tail(pieces))
    ELSE ParamNamesOf(Tail(pieces))

\* The compiled form: regex is the sequence of pieces that stand between
\* '^/' and '$', joined by '/'.
pathToRegex(routePattern) ==
    LET segments == Split(ReplaceBackslash(routePattern), "/")
        pieces   == [i \in 1..Len(segments) |-> SegmentRegex(segments[i])]
    IN  [regex |-> DropEmptyPieces(pieces), paramNames |-> ParamNamesOf(pieces)]

\* Characters that cannot occur in the name of a named capture group.
NotIdentifierChar == RegexMeta \cup {":", "#", "=", " "}

\* new RegExp(...) throws a SyntaxError on a capture group whose name is
\* empty or no identifier, and on two groups of the same name.
RegExpCompiles(compiled) ==
    /\ \A i \in 1..Len(compiled.paramNames) :
          /\ compiled.paramNames[i] # <<>>
          /\ \A k \in 1..Len(compiled.paramNames[i]) :
                compiled.paramNames[i][k] \notin NotIdentifierChar
    /\ \A i, j \in 1..Len(compiled.paramNames) :
          compiled.paramNames[i] = compiled.paramNames[j] => i = j

\* One piece of the regex against one '/'-free part of the path:
\* a parameter is [^\/]+, a literal is its atoms one by one.
PieceMatches(piece, part) ==
    IF piece.kind = "param"
    THEN Len(part) >= 1
    ELSE /\ Len(part) = Len(piece.atoms)
         /\ \A k \in 1..Len(part) :
               piece.atoms[k].atom = "any" \/ piece.atoms[k].c = part[k]

\* route.regex.exec(pathname): whether ^/piece1/.../pieceN$ matches, and
\* the part captured by each piece.
RegexExec(regex, pathname) ==
    IF ~StartsWith(pathname, "/")
    THEN [matched |-> FALSE, parts |-> <<>>]
    ELSE IF Len(regex) = 0
    THEN [matched |-> Tail(pathname) = <<>>, parts |-> <<>>]
    ELSE LET parts == Split(Tail(pathname), "/")
         IN  [matched |-> /\ Len(parts) = Len(regex)
                          /\ \A i \in 1..Len(regex) :
                                PieceMatches(regex[i], parts[i]),
              parts   |-> parts]

\* routeRegexResult.groups[paramName]: the capture of the group of that name.
GroupOf(regex, parts, paramName) ==
    LET i == CHOOSE k \in 1..Len(regex) :
                 regex[k].kind = "param" /\ regex[k].name = paramName
    IN  parts[i]

\* The key that names the prototype of a JavaScript object.
ProtoKey == <<"_", "_", "p", "r", "o", "t", "o", "_", "_">>

\* obj[key] = value on an object created by {} for a string value: an own
\* property is set, except for the key __proto__, whose setter ignores a
\* value that is no object.
ObjectSet(obj, key, value) ==
    IF key = ProtoKey THEN obj ELSE (key :> value) @@ obj

\* The loop over route.paramNames: params[paramName] = groups[paramName]
\* for every group that is a non-empty string.
RECURSIVE AssignParams(_, _, _, _)
AssignParams(paramNames, regex, parts, params) ==
    IF Len(paramNames) = 0 THEN params
    ELSE LET value == GroupOf(regex, parts, paramNames[1])
         IN  AssignParams(Tail(paramNames), regex, parts,
                          IF value # <<>>
                          THEN ObjectSet(params, paramNames[1], value)
                          ELSE params)

\* The params object dispatch builds from a match.
ParamsOf(route, parts) ==
    AssignParams(route.paramNames, route.regex, parts, [n \in {} |-> <<>>])

(***************************************************************************)
(* URL parsing and path joining (platform functions the code calls)        *)
(***************************************************************************)

\* The part of a request target before its query ('?') or fragment ('#').
RECURSIVE BeforeQuery(_)
BeforeQuery(s) ==
    IF Len(s) = 0 \/ s[1] \in {"?", "#"} THEN <<>>
    ELSE <<s[1]>> \o BeforeQuery(Tail(s))

\* The URL parser's path state: '.' segments are dropped, '..' removes the
\* segment before it, empty segments are kept; a dot segment in last place
\* leaves an empty last segment.
RECURSIVE UrlPathSegments(_, _)
UrlPathSegments(segs, acc) ==
    IF Len(segs) = 0 THEN acc
    ELSE LET seg  == segs[1]
             last == Len(segs) = 1
             base == IF seg = <<".", ".">>
                     THEN (IF Len(acc) > 0 THEN Front(acc) ELSE acc)
                     ELSE IF seg = <<".">> THEN acc
                     ELSE acc \o <<seg>>
             next == IF last /\ seg \in {<<".">>, <<".", ".">>}
                     THEN base \o << <<>> >>
                     ELSE base
         IN  UrlPathSegments(Tail(segs), next)

\* A target without its leading slashes.
RECURSIVE SkipSlashes(_)
SkipSlashes(s) ==
    IF Len(s) > 0 /\ s[1] = "/" THEN SkipSlashes(Tail(s)) ELSE s

\* A target from its first '/' on (empty when it has none).
RECURSIVE FromSlash(_)
FromSlash(s) ==
    IF Len(s) = 0 \/ s[1] = "/" THEN s ELSE FromSlash(Tail(s))

\* A target that starts with two slashes is scheme-relative: the URL parser
\* skips the slashes and reads an authority.
SchemeRelative(requestUrl) ==
    LET p == ReplaceBackslash(requestUrl)
    IN  Len(p) >= 2 /\ p[1] = "/" /\ p[2] = "/"

\* new URL(requestUrl, 'http://host') returns: it throws ERR_INVALID_URL for
\* a scheme-relative target whose authority is empty (such as '//').
UrlParses(requestUrl) ==
    \/ ~SchemeRelative(requestUrl)
    \/ BeforeQuery(SkipSlashes(ReplaceBackslash(requestUrl))) # <<>>

\* new URL(requestUrl, 'http://host').pathname.
Pathname(requestUrl) ==
    LET q == BeforeQuery(ReplaceBackslash(requestUrl))
        p == IF SchemeRelative(requestUrl) THEN FromSlash(SkipSlashes(q)) ELSE q
    IN  IF Len(p) = 0 THEN <<"/">>
        ELSE <<"/">> \o Join(UrlPathSegments(Split(Tail(p), "/"), <<>>), "/")

\* path.normalize's segment pass: empty and '.' segments are dropped, '..'
\* removes the segment before it, or stays when the path is relative and
\* nothing is left to remove.
RECURSIVE NormalizeSegments(_, _, _)
NormalizeSegments(segs, acc, allowAboveRoot) ==
    IF Len(segs) = 0 THEN acc
    ELSE LET seg == segs[1]
             next == IF seg = <<>> \/ seg = <<".">> THEN acc
                     ELSE IF seg = <<".", ".">>
                     THEN (IF Len(acc) > 0 /\ acc[Len(acc)] # <<".", ".">>
                           THEN Front(acc)
                           ELSE IF allowAboveRoot THEN acc \o <<seg>>
                           ELSE acc)
                     ELSE acc \o <<seg>>
         IN  NormalizeSegments(Tail(segs), next, allowAboveRoot)

\* path.normalize (POSIX).
PathNormalize(p) ==
    IF Len(p) = 0 THEN <<".">>
    ELSE LET isAbsolute == p[1] = "/"
             trailingSeparator == p[Len(p)] = "/"
             body == Join(NormalizeSegments(Split(p, "/"), <<>>, ~isAbsolute), "/")
         IN  IF Len(body) = 0
             THEN (IF isAbsolute THEN <<"/">>
                   ELSE IF trailingSeparator THEN <<".", "/">> ELSE <<".">>)
             ELSE (IF isAbsolute THEN <<"/">> ELSE <<>>) \o body
                  \o (IF trailingSeparator THEN <<"/">> ELSE <<>>)

\* path.join(a, b): the non-empty arguments joined by '/', then normalized.
PathJoin(a, b) ==
    IF Len(a) = 0 THEN PathNormalize(b)
    ELSE IF Len(b) = 0 THEN PathNormalize(a)
    ELSE PathNormalize(a \o <<"/">> \o b)

\* The dotfile test of #serveFile: /^.*\/\..*$/ matches a path that holds
\* a '/' followed by a '.'.
DotfileTest(filePath) == Contains2(filePath, "/", ".")

(***************************************************************************)
(* MIME resolver: MimeTypes.getType                                        *)
(***************************************************************************)

IndexHtml == <<"i", "n", "d", "e", "x", ".", "h", "t", "m", "l">>

\* The last '/'-separated part of a path (a trailing '/' is not a part).
BaseName(p) ==
    LET parts == Split(IF Len(p) > 1 /\ p[Len(p)] = "/" THEN Front(p) ELSE p, "/")
    IN  parts[Len(parts)]

\* path.extname(file).substring(1): what follows the last '.' of the base
\* name, empty when there is no '.' or the only '.' is its first character.
ExtName(p) ==
    LET b    == BaseName(p)
        dots == {i \in 1..Len(b) : b[i] = "."}
    IN  IF dots = {} THEN <<>>
        ELSE LET i == CHOOSE k \in dots : \A m \in dots : m <= k
             IN  IF i = 1 THEN <<>> ELSE SubSeq(b, i + 1, Len(b))

\* String.prototype.toLowerCase on the letters the model uses.
LowerOf(c) ==
    CASE c = "H" -> "h" [] c = "T" -> "t" [] c = "M" -> "m" [] c = "L" -> "l"
      [] c = "C" -> "c" [] c = "S" -> "s" [] c = "X" -> "x" [] OTHER -> c

ToLowerCase(s) == [i \in 1..Len(s) |-> LowerOf(s[i])]

\* Entries of the static table MimeTypes.#mimeTypeMap.
mimeTypeMap ==
    (<<"h", "t", "m", "l">> :> "text/html")
    @@ (<<"h", "t", "m">> :> "text/html")
    @@ (<<"c", "s", "s">> :> "text/css")
    @@ (<<"j", "s">> :> "application/javascript")
    @@ (<<"b", "i", "n">> :> "application/octet-stream")

\* The key under which every object inherits its constructor.
ConstructorKey == <<"c", "o", "n", "s", "t", "r", "u", "c", "t", "o", "r">>

\* What reading an inherited property of an object created by {} yields:
\* Object.prototype for __proto__, the function Object for constructor.
\* Neither is a string; both are truthy.
ObjectPrototype == "[Object.prototype]"
ObjectFunction == "[Function: Object]"

\* obj[key] on an object created by {}: the own property, else the property
\* inherited from Object.prototype, else undefined (the empty string stands
\* for undefined: both are falsy).
ObjectGet(obj, key) ==
    IF key \in DOMAIN obj THEN obj[key]
    ELSE IF key = ProtoKey THEN ObjectPrototype
    ELSE IF key = ConstructorKey THEN ObjectFunction
    ELSE ""

\* The body of MimeTypes.getType(file) for a given content of the static
\* table.
getTypeIn(map, file) ==
    LET extension == ToLowerCase(ExtName(file))
        found == ObjectGet(map, extension)
    IN  IF found # "" THEN found ELSE "application/octet-stream"

\* MimeTypes.getType(file).
getType(file) == getTypeIn(mimeTypeMap, file)

\* getMimeType(file) of an instance whose #localTypes is localTable.
getMimeType(localTable, file) ==
    LET extension == ToLowerCase(ExtName(file))
        found == ObjectGet(localTable, extension)
    IN  IF found # "" THEN found ELSE "application/octet-stream"

(***************************************************************************)
(* The response object of the platform (http.ServerResponse)               *)
(***************************************************************************)

NoHeaders == [h \in {} |-> ""]

\* A response nothing was written to. statusCode 0: no status line written.
FreshRes ==
    [headers |-> NoHeaders, headersSent |-> FALSE, statusCode |-> 0,
     body |-> <<>>, finished |-> FALSE]

\* The outcome of a call that can throw: the response after it, and whether
\* the call threw.
Ok(r)    == [res |-> r, threw |-> FALSE]
Threw(r) == [res |-> r, threw |-> TRUE]

\* res.setHeader for every entry of hdrs; throws ERR_HTTP_HEADERS_SENT once
\* the headers are sent.
SetHeaders(r, hdrs) ==
    IF DOMAIN hdrs = {} THEN Ok(r)
    ELSE IF r.headersSent THEN Threw(r)
    ELSE Ok([r EXCEPT !.headers = hdrs @@ r.headers])

\* res.writeHead(code, hdrs); throws ERR_HTTP_HEADERS_SENT once the headers
\* are sent.
WriteHead(r, code, hdrs) ==
    IF r.headersSent THEN Threw(r)
    ELSE Ok([r EXCEPT !.headers = hdrs @@ r.headers,
                      !.statusCode = code,
                      !.headersSent = TRUE])

\* res.end(chunks): sends the headers with status 200 if none were sent,
\* writes the chunks and finishes; does nothing on a finished response.
End(r, chunks) ==
    IF r.finished THEN r
    ELSE [r EXCEPT !.statusCode = IF r.headersSent THEN @ ELSE 200,
                   !.headersSent = TRUE,
                   !.body = @ \o chunks,
                   !.finished = TRUE]

(***************************************************************************)
(* Response wrapper (CoreRouteResponse), as far as the handlers use it     *)
(***************************************************************************)

\* new CoreRouteResponse(res): #statusCode 0 stands for null.
Wrap(r) == [res |-> r, statusCode |-> 0]

\* Faulty variant of status: the code is buffered whatever was sent.
crStatusAlways(w, code) == [w EXCEPT !.statusCode = code]

\* status(code).
crStatus(w, code) ==
    IF ~w.res.headersSent THEN [w EXCEPT !.statusCode = code] ELSE w

\* set(field, value) and set(object): res.setHeader for every entry.
crSet(w, hdrs) ==
    LET s == SetHeaders(w.res, hdrs)
    IN  [w |-> [w EXCEPT !.res = s.res], threw |-> s.threw]

\* send(data) for a string: text/plain, the buffered status or 200, end.
crSendString(w, chunks) ==
    LET finalStatusCode == IF w.statusCode # 0 THEN w.statusCode ELSE 200
        r1 == IF ~w.res.headersSent
              THEN WriteHead(SetHeaders(w.res, "Content-Type" :> "text/plain").res,
                             finalStatusCode, NoHeaders).res
              ELSE w.res
    IN  [w EXCEPT !.res = End(r1, chunks)]

(***************************************************************************)
(* Router: inputs                                                          *)
(***************************************************************************)

\* Bound on the number of configuration calls (registrations,
\* serveStaticFiles, setCors) made on one router.
MaxCalls == 2

\* Route patterns the application registers.
Patterns ==
    {<<"/", "a", "/", ":", "x">>,
     <<"/", "a", "/", "b">>,
     <<"/", ":", "x", "/", ":", "x">>}

\* Handlers are told apart by name; what a handler does when it is called
\* is the application's choice, made at the call.
Handlers == {"h1", "h2"}

\* What a handler can do with (req, res) before it returns or throws.
Behaviours == {"return", "send", "throw", "setThrow", "sendThrow"}

RouteMethods == {"GET", "PUT", "POST", "DELETE", "PATCH"}

\* Request methods: the five with a route list, OPTIONS, and one without.
Methods == RouteMethods \cup {"OPTIONS", "HEAD"}

\* Request targets (req.url).
Urls ==
    {<<"/">>,
     <<"/", "a">>,
     <<"/", "a", "/">>,
     <<"/", "a", "/", "b">>,
     <<"/", "b", "/", "c">>,
     <<"/", ".", "d">>,
     <<"/", ".", "e">>,
     <<"/", ".", "f">>,
     <<"/", ".", "g">>,
     <<"/", "u">>,
     <<"/", "c", ".", "c", "s", "s">>,
     <<"/", "a", "/", "b", "?", "q">>,
     <<"/", ".", ".", "/", "k">>,
     <<"/", "/">>}

\* Folders given to serveStaticFiles.
StaticFolders ==
    {<<".", "/", "p", "u", "b">>,
     <<"s", "/", ".", "p">>}

\* The default of #corsOptions.
DefaultCors ==
    ("Access-Control-Allow-Origin" :> "*")
    @@ ("Access-Control-Allow-Methods" :> "GET, POST, PUT, DELETE, PATCH, OPTIONS")
    @@ ("Access-Control-Allow-Headers" :> "Content-Type, Authorization")

\* Policies given to setCors.
CorsPolicies ==
    {("Access-Control-Allow-Origin" :> "https://app.example")
        @@ ("Access-Control-Allow-Methods" :> "GET, POST"),
     NoHeaders}

(***************************************************************************)
(* The filesystem the static resolver reads (fixed during a run)           *)
(***************************************************************************)

\* Directories, by their normalized path.
FsDirs ==
    {<<"p", "u", "b">>,
     <<"p", "u", "b", "/", "a">>,
     <<"p", "u", "b", "/", ".", "d">>,
     <<"p", "u", "b", "/", ".", "e">>,
     <<"s">>,
     <<"s", "/", ".", "p">>}

\* Files, by their normalized path.
FsFiles ==
    {<<"p", "u", "b", "/", "i", "n", "d", "e", "x", ".", "h", "t", "m", "l">>,
     <<"p", "u", "b", "/", "a", "/", "b">>,
     <<"p", "u", "b", "/", "c", ".", "c", "s", "s">>,
     <<"p", "u", "b", "/", ".", "e", "/", "i", "n", "d", "e", "x", ".", "h", "t", "m", "l">>,
     <<"p", "u", "b", "/", ".", "f">>,
     <<"p", "u", "b", "/", "u">>,
     <<"s", "/", ".", "p", "/", "i", "n", "d", "e", "x", ".", "h", "t", "m", "l">>,
     <<"k">>}

\* Files the process has no read permission on.
FsUnreadable ==
    {<<"p", "u", "b", "/", "u">>}

StripTrailingSlash(p) ==
    IF Len(p) > 1 /\ p[Len(p)] = "/" THEN Front(p) ELSE p

\* fs.stat(p): no error and stats.isDirectory().
StatIsDirectory(p) == StripTrailingSlash(p) \in FsDirs

\* fs.access(p, R_OK) reports no error: a directory, or a readable file
\* named without a trailing '/'.
Readable(p) ==
    \/ StripTrailingSlash(p) \in FsDirs
    \/ p \in FsFiles \ FsUnreadable

(***************************************************************************)
(* Router state                                                            *)
(***************************************************************************)

VARIABLES
    gets, puts, posts, deletes, patchs,  \* the five route lists
    staticFolder,                        \* #staticFolder
    isStaticServingEnabled,              \* #isStaticServingEnabled
    corsOptions,                         \* #corsOptions
    ncalls,                              \* configuration calls made so far
    lastCall,                            \* the last configuration call (history)
    req,                                 \* the request being handled
    res,                                 \* its response object
    pc,                                  \* where its handling stands
    filePath,                            \* filePath of #staticHandler
    invoked,                             \* indices of the routes whose handler ran
    behaviour,                           \* what the invoked handler did
    exc,                                 \* exception that left dispatch or a callback
    fsOps,                               \* filesystem calls issued for the request
    coreRes,                             \* a CoreRouteResponse a handler holds
    crLast,                              \* the last call made on it, and how it ended
    ncr,                                 \* calls made on it so far
    heap,                                \* the MIME tables in memory; heap[1] is #mimeTypeMap
    localTypes,                          \* #localTypes of each MimeTypes instance (index in heap)
    lists,                               \* the maps getMimeList returned (index in heap)
    mimeLast,                            \* the last MimeTypes call, and how it ended
    serverInstance,                      \* #serverInstance: 0 is null, else an index in servers
    servers,                             \* the servers listen created, and their state
    lastLife,                            \* the last listen or close call (history)
    held,                                \* the policy maps the application holds
    paramsHeap,                          \* the params objects dispatch created
    paramsRef,                           \* req.params of the request being handled (index, 0 is none)
    parked                               \* requests whose handler awaits something

routerVars == <<gets, puts, posts, deletes, patchs, staticFolder,
                isStaticServingEnabled, corsOptions>>
requestVars == <<req, res, pc, filePath, invoked, behaviour, exc, fsOps>>
wrapperVars == <<coreRes, crLast, ncr>>
mimeVars == <<heap, localTypes, lists, mimeLast>>
serverVars == <<serverInstance, servers, lastLife>>
hostVars == <<serverInstance, servers, lastLife, held, paramsHeap, paramsRef, parked>>
libVars == <<coreRes, crLast, ncr, heap, localTypes, lists, mimeLast,
             serverInstance, servers, lastLife, held, paramsHeap, paramsRef, parked>>
vars == <<gets, puts, posts, deletes, patchs, staticFolder,
          isStaticServingEnabled, corsOptions, ncalls, lastCall,
          req, res, pc, filePath, invoked, behaviour, exc, fsOps,
          coreRes, crLast, ncr, heap, localTypes, lists, mimeLast,
          serverInstance, servers, lastLife, held, paramsHeap, paramsRef, parked>>

NoParams == [n \in {} |-> <<>>]

\* No request yet.
NoRequest == [method |-> "", url |-> <<>>, hasParams |-> FALSE, params |-> NoParams]

\* No call made yet on the wrapper, on MimeTypes.
NoCrCall == [op |-> "none", arg |-> "", threw |-> FALSE]
NoMimeCall ==
    [op |-> "none", inst |-> 0, ext |-> <<>>, type |-> "", file |-> <<>>,
     threw |-> FALSE, ret |-> ""]

\* No listen or close call made yet.
NoLifeCall == [op |-> "new", threw |-> FALSE]

\* A configuration call: the method called and its arguments.
Call(op, routePattern, callback) ==
    [op |-> op, routePattern |-> routePattern, callback |-> callback]

Init ==
    /\ gets = <<>> /\ puts = <<>> /\ posts = <<>> /\ deletes = <<>> /\ patchs = <<>>
    /\ staticFolder = <<>>
    /\ isStaticServingEnabled = FALSE
    /\ corsOptions = DefaultCors
    /\ ncalls = 0
    /\ lastCall = Call("new", <<>>, "")
    /\ req = NoRequest
    /\ res = FreshRes
    /\ pc = "idle"
    /\ filePath = <<>>
    /\ invoked = <<>>
    /\ behaviour = "none"
    /\ exc = "none"
    /\ fsOps = <<>>
    /\ coreRes = Wrap(FreshRes)
    /\ crLast = NoCrCall
    /\ ncr = 0
    /\ heap = <<mimeTypeMap>>
    /\ localTypes = <<>>
    /\ lists = <<>>
    /\ mimeLast = NoMimeCall
    /\ serverInstance = 0
    /\ servers = <<>>
    /\ lastLife = NoLifeCall
    /\ held = <<>>
    /\ paramsHeap = <<>>
    /\ paramsRef = 0
    /\ parked = <<>>

(***************************************************************************)
(* Registration: get, put, post, delete, patch, all                        *)
(***************************************************************************)

\* The five lists as one value.
Tables == [gets |-> gets, puts |-> puts, posts |-> posts,
           deletes |-> deletes, patchs |-> patchs]

\* The route a registration pushes.
RouteOf(routePattern, callback) ==
    LET c == pathToRegex(routePattern)
    IN  [routePattern |-> routePattern, regex |-> c.regex,
         paramNames |-> c.paramNames, handler |-> callback]

\* Faulty variant of get(): the route goes to the front of the list.
getRouteFront(t, routePattern, callback) ==
    [t EXCEPT !.gets = <<RouteOf(routePattern, callback)>> \o @]

\* get(routePattern, callback) and its four siblings, on the lists.
getRoute(t, routePattern, callback) ==
    [t EXCEPT !.gets = Append(@, RouteOf(routePattern, callback))]

putRoute(t, routePattern, callback) ==
    [t EXCEPT !.puts = Append(@, RouteOf(routePattern, callback))]

postRoute(t, routePattern, callback) ==
    [t EXCEPT !.posts = Append(@, RouteOf(routePattern, callback))]

deleteRoute(t, routePattern, callback) ==
    [t EXCEPT !.deletes = Append(@, RouteOf(routePattern, callback))]

patchRoute(t, routePattern, callback) ==
    [t EXCEPT !.patchs = Append(@, RouteOf(routePattern, callback))]

\* Faulty variant of all(): the patch registration is missing.
allRouteNoPatch(t, routePattern, callback) ==
    deleteRoute(postRoute(putRoute(getRoute(t, routePattern, callback),
        routePattern, callback), routePattern, callback), routePattern, callback)

\* all(routePattern, callback): the five registrations, one after the other.
allRoute(t, routePattern, callback) ==
    patchRoute(deleteRoute(postRoute(putRoute(getRoute(t, routePattern, callback),
        routePattern, callback), routePattern, callback), routePattern, callback),
        routePattern, callback)

\* A registration call: #pathToRegex throws before anything is pushed when
\* the pattern does not compile; otherwise the lists become t.
Register(op, routePattern, callback, t) ==
    /\ exc = "none"
    /\ ncalls < MaxCalls
    /\ ncalls' = ncalls + 1
    /\ LET compiles == RegExpCompiles(pathToRegex(routePattern))
           new == IF compiles THEN t ELSE Tables
       IN  /\ lastCall' = Call(op, routePattern, callback)
           /\ gets' = new.gets
           /\ puts' = new.puts
           /\ posts' = new.posts
           /\ deletes' = new.deletes
           /\ patchs' = new.patchs
    /\ UNCHANGED <<staticFolder, isStaticServingEnabled, corsOptions>>
    /\ UNCHANGED <<requestVars, libVars>>

Get(routePattern, callback) ==
    Register("get", routePattern, callback, getRoute(Tables, routePattern, callback))

Put(routePattern, callback) ==
    Register("put", routePattern, callback, putRoute(Tables, routePattern, callback))

Post(routePattern, callback) ==
    Register("post", routePattern, callback, postRoute(Tables, routePattern, callback))

Delete(routePattern, callback) ==
    Register("delete", routePattern, callback, deleteRoute(Tables, routePattern, callback))

Patch(routePattern, callback) ==
    Register("patch", routePattern, callback, patchRoute(Tables, routePattern, callback))

All(routePattern, callback) ==
    Register("all", routePattern, callback, allRoute(Tables, routePattern, callback))

\* serveStaticFiles(folder).
ServeStaticFiles(folder) ==
    /\ exc = "none"
    /\ ncalls < MaxCalls
    /\ ncalls' = ncalls + 1
    /\ lastCall' = Call("serveStaticFiles", folder, "")
    /\ staticFolder' = folder
    /\ isStaticServingEnabled' = TRUE
    /\ UNCHANGED <<gets, puts, posts, deletes, patchs, corsOptions>>
    /\ UNCHANGED <<requestVars, libVars>>

\* setCors(options).
SetCors(options) ==
    /\ exc = "none"
    /\ ncalls < MaxCalls
    /\ ncalls' = ncalls + 1
    /\ lastCall' = Call("setCors", <<>>, "")
    /\ corsOptions' = options
    /\ UNCHANGED <<gets, puts, posts, deletes, patchs, staticFolder,
                   isStaticServingEnabled>>
    /\ UNCHANGED <<requestVars, libVars>>

(***************************************************************************)
(* Dispatch                                                                *)
(***************************************************************************)

\* #errorHandler(res, httpCode, message): writeHead, then end(message).
errorHandler(r, httpCode, message) ==
    LET w == WriteHead(r, httpCode, "Content-Type" :> "text/plain")
    IN  IF w.threw THEN Threw(r) ELSE Ok(End(w.res, message))

\* #applyCorsHeaders(res): setHeader for every header of #corsOptions.
applyCorsHeaders(r, cors) == SetHeaders(r, cors)

\* The string form of the error a handler throws.
ErrorText == "Error: boom"

\* route.handler(req, coreRes) for a handler that behaves as b.
RunHandler(b, r) ==
    CASE b = "return"    -> Ok(r)
      [] b = "send"      -> Ok(crSendString(Wrap(r), <<"ok">>).res)
      [] b = "throw"     -> Threw(r)
      [] b = "setThrow"  -> Threw(crSet(Wrap(r), "X-Handler" :> "1").w.res)
      [] b = "sendThrow" -> Threw(crSendString(Wrap(r), <<"ok">>).res)

\* Faulty variant of the switch: a GET request also runs over the POST list.
routesArrayOfShared(t, method) ==
    CASE method = "GET"    -> t.gets \o t.posts
      [] method = "PUT"    -> t.puts
      [] method = "POST"   -> t.posts
      [] method = "DELETE" -> t.deletes
      [] method = "PATCH"  -> t.patchs
      [] OTHER             -> <<>>

\* The switch on req.method: the list the loop runs over (none is empty).
routesArrayOf(t, method) ==
    CASE method = "GET"    -> t.gets
      [] method = "PUT"    -> t.puts
      [] method = "POST"   -> t.posts
      [] method = "DELETE" -> t.deletes
      [] method = "PATCH"  -> t.patchs
      [] OTHER             -> <<>>

\* Faulty variant of the loop: it keeps going and the last matching route
\* wins.
MatchedRoutesLast(routesArray, pathname) ==
    LET m == {i \in 1..Len(routesArray) :
                 RegexExec(routesArray[i].regex, pathname).matched}
    IN  IF m = {} THEN <<>>
        ELSE <<CHOOSE i \in m : \A j \in m : j <= i>>

\* The loop over routesArray: the indices of the routes whose handler it
\* invokes. It returns at the first route whose regex matches.
MatchedRoutes(routesArray, pathname) ==
    LET m == {i \in 1..Len(routesArray) :
                 RegexExec(routesArray[i].regex, pathname).matched}
    IN  IF m = {} THEN <<>>
        ELSE <<CHOOSE i \in m : \A j \in m : i <= j>>

\* What one step of request handling leaves behind.
Outcome(rq, r, p, fp, inv, e, ops) ==
    [req |-> rq, res |-> r, pc |-> p, filePath |-> fp, invoked |-> inv,
     behaviour |-> "none", exc |-> e, fsOps |-> ops]

\* Faulty variant of the OPTIONS case: the CORS headers are not applied.
PreflightNoCors(rq, cors) ==
    LET w == WriteHead(FreshRes, 204, NoHeaders)
    IN  Outcome(rq, End(w.res, <<>>), "done", <<>>, <<>>, "none", <<>>)

\* The OPTIONS case of the switch.
Preflight(rq, cors) ==
    LET c == applyCorsHeaders(FreshRes, cors)
        w == WriteHead(c.res, 204, NoHeaders)
    IN  Outcome(rq, End(w.res, <<>>), "done", <<>>, <<>>, "none", <<>>)

\* Faulty variant of the loop body: after a handler that returned it ends
\* the response itself.
InvokeRouteEnds(rq, route, i, pathname, cors, b) ==
    LET params == ParamsOf(route, RegexExec(route.regex, pathname).parts)
        rq1 == [rq EXCEPT !.hasParams = TRUE, !.params = params]
        c == applyCorsHeaders(FreshRes, cors)
        h == RunHandler(b, c.res)
        e == errorHandler(h.res, 500, <<"Internal Server Error : ", ErrorText>>)
    IN  IF ~h.threw
        THEN Outcome(rq1, End(h.res, <<>>), "done", <<>>, <<i>>, "none", <<>>)
        ELSE IF ~e.threw
        THEN Outcome(rq1, e.res, "done", <<>>, <<i>>, "none", <<>>)
        ELSE Outcome(rq1, e.res, "crashed", <<>>, <<i>>, "ERR_HTTP_HEADERS_SENT", <<>>)

\* The body of the loop for the matching route at index i.
InvokeRoute(rq, route, i, pathname, cors, b) ==
    LET params == ParamsOf(route, RegexExec(route.regex, pathname).parts)
        rq1 == [rq EXCEPT !.hasParams = TRUE, !.params = params]
        c == applyCorsHeaders(FreshRes, cors)
        h == RunHandler(b, c.res)
        e == errorHandler(h.res, 500, <<"Internal Server Error : ", ErrorText>>)
    IN  IF ~h.threw
        THEN Outcome(rq1, h.res, IF h.res.finished THEN "done" ELSE "handed",
                     <<>>, <<i>>, "none", <<>>)
        ELSE IF ~e.threw
        THEN Outcome(rq1, e.res, "done", <<>>, <<i>>, "none", <<>>)
        ELSE Outcome(rq1, e.res, "crashed", <<>>, <<i>>, "ERR_HTTP_HEADERS_SENT", <<>>)

\* #staticHandler(req, res) up to its fs.stat call.
staticHandler(rq, folder) ==
    LET fp == PathJoin(folder, rq.url)
    IN  Outcome(rq, FreshRes, "stat", fp, <<>>, "none", <<[op |-> "stat", path |-> fp]>>)

\* Faulty variant of the fall-through: static serving is never tried.
NoRouteAlways404(rq, enabled, folder) ==
    Outcome(rq, errorHandler(FreshRes, 404, <<"Route Not Found">>).res,
            "done", <<>>, <<>>, "none", <<>>)

\* The fall-through after the loop.
NoRoute(rq, enabled, folder) ==
    IF enabled
    THEN staticHandler(rq, folder)
    ELSE Outcome(rq, errorHandler(FreshRes, 404, <<"Route Not Found">>).res,
                 "done", <<>>, <<>>, "none", <<>>)

\* #dispatch(req, res) for a request with the given method and url, the
\* handler it may invoke behaving as b.
dispatch(t, enabled, folder, cors, method, url, b) ==
    LET rq == [method |-> method, url |-> url, hasParams |-> FALSE, params |-> NoParams]
        routesArray == routesArrayOf(t, method)
        pathname == Pathname(url)
        hit == MatchedRoutes(routesArray, pathname)
    IN  IF method = "OPTIONS" THEN Preflight(rq, cors)
        ELSE IF ~UrlParses(url)
        THEN Outcome(rq, FreshRes, "crashed", <<>>, <<>>, "ERR_INVALID_URL", <<>>)
        ELSE IF hit # <<>>
        THEN LET o == InvokeRoute(rq, routesArray[hit[1]], hit[1], pathname, cors, b)
             IN  [o EXCEPT !.invoked = hit, !.behaviour = b]
        ELSE NoRoute(rq, enabled, folder)

\* The behaviours to tell apart for a request: those of the handler it
\* invokes; when it invokes none, one value stands for all.
BehavioursAt(t, method, url) ==
    IF method # "OPTIONS" /\ UrlParses(url)
       /\ MatchedRoutes(routesArrayOf(t, method), Pathname(url)) # <<>>
    THEN Behaviours
    ELSE {"return"}

SetRequest(o) ==
    /\ req' = o.req
    /\ res' = o.res
    /\ pc' = o.pc
    /\ filePath' = o.filePath
    /\ invoked' = o.invoked
    /\ behaviour' = IF pc = "idle" THEN (IF o.invoked # <<>> THEN o.behaviour ELSE "none")
                    ELSE behaviour
    /\ exc' = o.exc
    /\ fsOps' = o.fsOps

\* The server delivers a request to #dispatch.
Dispatch(method, url, b) ==
    /\ exc = "none"
    /\ pc = "idle"
    /\ b \in BehavioursAt(Tables, method, url)
    /\ SetRequest(dispatch(Tables, isStaticServingEnabled, staticFolder,
                           corsOptions, method, url, b))
    /\ UNCHANGED <<libVars, routerVars, ncalls, lastCall>>

\* A handler that returned without finalizing sends its response later.
HandlerFinalize ==
    /\ exc = "none"
    /\ pc = "handed"
    /\ res' = crSendString(Wrap(res), <<"ok">>).res
    /\ pc' = "done"
    /\ UNCHANGED <<libVars, routerVars, ncalls, lastCall, req, filePath, invoked, behaviour, exc, fsOps>>

(***************************************************************************)
(* Static file resolver: the filesystem callbacks                          *)
(***************************************************************************)

\* An #errorHandler call as the last thing a callback does.
Fail(rq, r, fp, ops, httpCode, message) ==
    LET e == errorHandler(r, httpCode, message)
    IN  IF e.threw
        THEN Outcome(rq, r, "crashed", fp, <<>>, "ERR_HTTP_HEADERS_SENT", ops)
        ELSE Outcome(rq, e.res, "done", fp, <<>>, "none", ops)

\* #serveFile(filePath, req, res) up to its fs.access call.
serveFile(rq, r, fp, ops) ==
    IF DotfileTest(fp)
    THEN Fail(rq, r, fp, ops, 403, <<"Forbidden">>)
    ELSE Outcome(rq, r, "access", fp, <<>>, "none",
                 Append(ops, [op |-> "access", path |-> fp]))

\* The callback of fs.stat.
statCallback(rq, r, fp, ops) ==
    IF StatIsDirectory(fp)
    THEN Outcome(rq, r, "indexAccess", fp, <<>>, "none",
                 Append(ops, [op |-> "access", path |-> PathJoin(fp, IndexHtml)]))
    ELSE serveFile(rq, r, fp, ops)

\* Faulty variant of the index callback: a readable index.html does not
\* replace filePath, the directory itself is served.
indexAccessCallbackKeepsDir(rq, r, fp, ops) ==
    LET indexPath == PathJoin(fp, IndexHtml)
    IN  IF Readable(indexPath)
        THEN serveFile(rq, r, fp, ops)
        ELSE LET e == errorHandler(r, 404, <<"File Not Found">>)
             IN  IF e.threw
                 THEN Outcome(rq, r, "crashed", fp, <<>>, "ERR_HTTP_HEADERS_SENT", ops)
                 ELSE serveFile(rq, e.res, fp, ops)

\* The callback of fs.access(indexPath).
indexAccessCallback(rq, r, fp, ops) ==
    LET indexPath == PathJoin(fp, IndexHtml)
    IN  IF Readable(indexPath)
        THEN serveFile(rq, r, indexPath, ops)
        ELSE LET e == errorHandler(r, 404, <<"File Not Found">>)
             IN  IF e.threw
                 THEN Outcome(rq, r, "crashed", fp, <<>>, "ERR_HTTP_HEADERS_SENT", ops)
                 ELSE serveFile(rq, e.res, fp, ops)

\* Faulty variant of the #serveFile callback: the MIME type is not resolved
\* from the file name, every file goes out as application/octet-stream.
accessCallbackOctet(rq, r, fp, ops) ==
    IF Readable(fp)
    THEN LET w == WriteHead(r, 200, "Content-Type" :> "application/octet-stream")
         IN  IF w.threw
             THEN Outcome(rq, r, "crashed", fp, <<>>, "ERR_HTTP_HEADERS_SENT", ops)
             ELSE Outcome(rq, w.res, "stream", fp, <<>>, "none",
                          Append(ops, [op |-> "createReadStream", path |-> fp]))
    ELSE Fail(rq, r, fp, ops, 404, <<"File Not Found">>)

\* The callback of fs.access(filePath) in #serveFile.
accessCallback(rq, r, fp, ops) ==
    IF Readable(fp)
    THEN LET w == WriteHead(r, 200, "Content-Type" :> getType(fp))
         IN  IF w.threw
             THEN Outcome(rq, r, "crashed", fp, <<>>, "ERR_HTTP_HEADERS_SENT", ops)
             ELSE Outcome(rq, w.res, "stream", fp, <<>>, "none",
                          Append(ops, [op |-> "createReadStream", path |-> fp]))
    ELSE Fail(rq, r, fp, ops, 404, <<"File Not Found">>)

StatCallback ==
    /\ exc = "none"
    /\ pc = "stat"
    /\ SetRequest(statCallback(req, res, filePath, fsOps))
    /\ UNCHANGED <<libVars, routerVars, ncalls, lastCall>>

IndexAccessCallback ==
    /\ exc = "none"
    /\ pc = "indexAccess"
    /\ SetRequest(indexAccessCallback(req, res, filePath, fsOps))
    /\ UNCHANGED <<libVars, routerVars, ncalls, lastCall>>

AccessCallback ==
    /\ exc = "none"
    /\ pc = "access"
    /\ SetRequest(accessCallback(req, res, filePath, fsOps))
    /\ UNCHANGED <<libVars, routerVars, ncalls, lastCall>>

\* stream.pipe(res) reaches the end of the file.
StreamEnd ==
    /\ exc = "none"
    /\ pc = "stream"
    /\ filePath \in FsFiles
    /\ res' = End(res, <<"(file content)">>)
    /\ pc' = "done"
    /\ UNCHANGED <<libVars, routerVars, ncalls, lastCall, req, filePath, invoked, behaviour, exc, fsOps>>

\* The read stream emits 'error': the bound #errorHandler runs.
StreamError ==
    /\ exc = "none"
    /\ pc = "stream"
    /\ SetRequest(Fail(req, res, filePath, fsOps, 500,
                       <<"Internal Server Error during static file service">>))
    /\ UNCHANGED <<libVars, routerVars, ncalls, lastCall>>

\* The exchange is over: the response was sent, the server drops the request
\* and its response object and waits for the next request.
ExchangeOver ==
    /\ exc = "none"
    /\ pc = "done"
    /\ req' = NoRequest
    /\ res' = FreshRes
    /\ pc' = "idle"
    /\ filePath' = <<>>
    /\ invoked' = <<>>
    /\ behaviour' = "none"
    /\ fsOps' = <<>>
    /\ UNCHANGED <<libVars, routerVars, ncalls, lastCall, exc>>

Next ==
    \/ \E p \in Patterns, h \in Handlers : Get(p, h)
    \/ \E p \in Patterns, h \in Handlers : Put(p, h)
    \/ \E p \in Patterns, h \in Handlers : Post(p, h)
    \/ \E p \in Patterns, h \in Handlers : Delete(p, h)
    \/ \E p \in Patterns, h \in Handlers : Patch(p, h)
    \/ \E p \in Patterns, h \in Handlers : All(p, h)
    \/ \E f \in StaticFolders : ServeStaticFiles(f)
    \/ \E o \in CorsPolicies : SetCors(o)
    \/ \E m \in Methods, u \in Urls, b \in Behaviours : Dispatch(m, u, b)
    \/ HandlerFinalize
    \/ StatCallback
    \/ IndexAccessCallback
    \/ AccessCallback
    \/ StreamEnd
    \/ StreamError
    \/ ExchangeOver

Spec == Init /\ [][Next]_vars

\* The same router when the event loop runs every pending filesystem
\* callback and a transfer that is not cut short by a read error reaches the
\* end of its file.
SpecLive ==
    /\ Init /\ [][Next]_vars
    /\ WF_vars(StatCallback)
    /\ WF_vars(IndexAccessCallback)
    /\ WF_vars(AccessCallback)
    /\ WF_vars(StreamEnd)

(***************************************************************************)
(* Pattern matching on a wider set of patterns and paths: the same router, *)
(* GET registrations and GET requests only.                                *)
(***************************************************************************)

MatchPatterns ==
    {<<"/">>,
     <<"/", "a", "/", "b">>,
     <<"/", "a", "/", ":", "x">>,
     <<"/", ":", "x", "/", ":", "y">>,
     <<"/", "/", "a", "/", "/", ":", "y", "/">>,
     <<"/", ":", "y", "/", "b">>,
     <<"/", "a", ".", "b">>,
     <<"\\", "a", "\\", ":", "x">>,
     <<"/", ":", "_", "_", "p", "r", "o", "t", "o", "_", "_">>,
     <<"/", ":", "x", "/", ":", "x">>,
     <<"/", "a", "/", ":">>}

MatchUrls ==
    {<<"/">>,
     <<"/", "a">>,
     <<"/", "a", "/">>,
     <<"/", "a", "/", "b">>,
     <<"/", "b", "/", "a">>,
     <<"/", "b", "/", "b">>,
     <<"/", "a", "/", "/", "b">>,
     <<"/", "a", "/", "b", "/">>,
     <<"/", "a", ".", "b">>,
     <<"/", "a", "x", "b">>,
     <<"/", "a", "/", "b", "?", "y">>,
     <<"/", "a", "/", ".", "/", "b">>,
     <<"/", "a", "/", "b", "/", "c">>,
     <<"/", "a", "/", ".", ".", "/", "b", "/", "a">>}

NextMatch ==
    \/ \E p \in MatchPatterns, h \in Handlers : Get(p, h)
    \/ \E u \in MatchUrls, b \in {"return", "send"} : Dispatch("GET", u, b)
    \/ HandlerFinalize
    \/ ExchangeOver

SpecMatch == Init /\ [][NextMatch]_vars

(***************************************************************************)
(* Response wrapper: the calls a handler makes on its CoreRouteResponse    *)
(***************************************************************************)

\* Bound on the number of calls made on one wrapper.
MaxOps == 4

\* Values a handler passes to json() and send(), one per kind: a string, a
\* buffer with a known signature, a buffer without, a plain object, an
\* array, an object JSON.stringify cannot serialize (circular), null,
\* undefined, a number, a boolean.
DataKinds ==
    {"string", "bufferPng", "bufferUnknown", "object", "array", "circular",
     "null", "undefined", "number", "boolean"}

\* Buffer.isBuffer(data).
IsBuffer(d) == d \in {"bufferPng", "bufferUnknown"}

\* typeof data === 'object' && data !== null.
IsObject(d) == d \in {"bufferPng", "bufferUnknown", "object", "array", "circular"}

\* JSON.stringify(data): the text (no chunk when it returns undefined), or
\* the TypeError it throws.
JsonStringify(d) ==
    CASE d = "string"        -> [threw |-> FALSE, chunks |-> <<"\"hi\"">>]
      [] d = "bufferPng"     -> [threw |-> FALSE, chunks |-> <<"{\"type\":\"Buffer\",\"data\":[137,80,78,71]}">>]
      [] d = "bufferUnknown" -> [threw |-> FALSE, chunks |-> <<"{\"type\":\"Buffer\",\"data\":[0,1]}">>]
      [] d = "object"        -> [threw |-> FALSE, chunks |-> <<"{\"a\":1}">>]
      [] d = "array"         -> [threw |-> FALSE, chunks |-> <<"[1,2]">>]
      [] d = "circular"      -> [threw |-> TRUE,  chunks |-> <<>>]
      [] d = "null"          -> [threw |-> FALSE, chunks |-> <<"null">>]
      [] d = "undefined"     -> [threw |-> FALSE, chunks |-> <<>>]
      [] d = "number"        -> [threw |-> FALSE, chunks |-> <<"42">>]
      [] d = "boolean"       -> [threw |-> FALSE, chunks |-> <<"true">>]

\* String(data) for the values that are neither string nor object.
StringOf(d) ==
    CASE d = "null"      -> <<"null">>
      [] d = "undefined" -> <<"undefined">>
      [] d = "number"    -> <<"42">>
      [] d = "boolean"   -> <<"true">>

\* The bytes of a string or a buffer, as res.end receives them.
Raw(d) ==
    CASE d = "string"        -> <<"hi">>
      [] d = "bufferPng"     -> <<"(137,80,78,71)">>
      [] d = "bufferUnknown" -> <<"(0,1)">>

\* MimeTypes.getTypeFromBuffer(buffer): the type of a known signature, else
\* null (the empty string stands for null).
getTypeFromBuffer(d) == IF d = "bufferPng" THEN "image/png" ELSE ""

\* MimeTypes.getTypeFromExtension(extension): the table entry, else null.
getTypeFromExtension(extension) ==
    IF ToLowerCase(extension) \in DOMAIN mimeTypeMap
    THEN mimeTypeMap[ToLowerCase(extension)]
    ELSE ""

\* type(type).
crType(w, type) ==
    LET mimeType == getTypeFromExtension(type)
    IN  IF mimeType # "" THEN crSet(w, "Content-Type" :> mimeType)
        ELSE [w |-> w, threw |-> FALSE]

\* json(data): headers and status first, JSON.stringify after.
crJson(w, d) ==
    LET finalStatusCode == IF w.statusCode # 0 THEN w.statusCode ELSE 200
        r1 == IF ~w.res.headersSent
              THEN WriteHead(SetHeaders(w.res, "Content-Type" :> "application/json").res,
                             finalStatusCode, NoHeaders).res
              ELSE w.res
        j == JsonStringify(d)
    IN  IF j.threw THEN [w |-> [w EXCEPT !.res = r1], threw |-> TRUE]
        ELSE [w |-> [w EXCEPT !.res = End(r1, j.chunks)], threw |-> FALSE]

\* Faulty variant of send: every value goes out as text/plain.
crSendAllText(w, d) ==
    LET finalStatusCode == IF w.statusCode # 0 THEN w.statusCode ELSE 200
        j == JsonStringify(d)
        responseData == IF d = "string" \/ IsBuffer(d) THEN Raw(d)
                        ELSE IF IsObject(d) THEN j.chunks
                        ELSE StringOf(d)
        r1 == IF ~w.res.headersSent
              THEN WriteHead(SetHeaders(w.res, "Content-Type" :> "text/plain").res,
                             finalStatusCode, NoHeaders).res
              ELSE w.res
    IN  IF ~IsBuffer(d) /\ IsObject(d) /\ j.threw THEN [w |-> w, threw |-> TRUE]
        ELSE [w |-> [w EXCEPT !.res = End(r1, responseData)], threw |-> FALSE]

\* send(data): the Content-Type and the bytes by kind of data, then
\* headers, status and end.
crSend(w, d) ==
    LET finalStatusCode == IF w.statusCode # 0 THEN w.statusCode ELSE 200
        mimeFromBuffer == getTypeFromBuffer(d)
        j == JsonStringify(d)
        contentType == IF d = "string" THEN "text/plain"
                       ELSE IF IsBuffer(d)
                       THEN (IF mimeFromBuffer # "" THEN mimeFromBuffer
                             ELSE "application/octet-stream")
                       ELSE IF IsObject(d) THEN "application/json"
                       ELSE "text/plain"
        responseData == IF d = "string" \/ IsBuffer(d) THEN Raw(d)
                        ELSE IF IsObject(d) THEN j.chunks
                        ELSE StringOf(d)
        r1 == IF ~w.res.headersSent
              THEN WriteHead(SetHeaders(w.res, "Content-Type" :> contentType).res,
                             finalStatusCode, NoHeaders).res
              ELSE w.res
    IN  IF ~IsBuffer(d) /\ IsObject(d) /\ j.threw THEN [w |-> w, threw |-> TRUE]
        ELSE [w |-> [w EXCEPT !.res = End(r1, responseData)], threw |-> FALSE]

\* end().
crEnd(w) ==
    LET finalStatusCode == IF w.statusCode # 0 THEN w.statusCode ELSE 200
        r1 == IF ~w.res.headersSent
              THEN WriteHead(w.res, finalStatusCode, NoHeaders).res
              ELSE w.res
    IN  [w |-> [w EXCEPT !.res = End(r1, <<>>)], threw |-> FALSE]

\* Status codes, headers and extensions the handler uses.
StatusCodes == {201, 404}
HeaderObjects ==
    {("X-A" :> "2") @@ ("Content-Type" :> "text/csv"), NoHeaders}
TypeExtensions == {<<"h", "t", "m", "l">>, <<"z", "z", "z">>}

\* One call on the wrapper: its outcome replaces the wrapper's state.
CrCall(op, arg, out) ==
    /\ ncr < MaxOps
    /\ ncr' = ncr + 1
    /\ coreRes' = out.w
    /\ crLast' = [op |-> op, arg |-> arg, threw |-> out.threw]
    /\ UNCHANGED <<routerVars, ncalls, lastCall, requestVars, mimeVars, hostVars>>

CrStatus(code) == CrCall("status", code, [w |-> crStatus(coreRes, code), threw |-> FALSE])
CrSet(field, value) == CrCall("set", field, crSet(coreRes, field :> value))
CrSetObject(fields) == CrCall("setObject", "", crSet(coreRes, fields))
CrType(type) == CrCall("type", type, crType(coreRes, type))
CrJson(d) == CrCall("json", d, crJson(coreRes, d))
CrSend(d) == CrCall("send", d, crSend(coreRes, d))
CrEnd == CrCall("end", "", crEnd(coreRes))

NextWrapper ==
    \/ \E c \in StatusCodes : CrStatus(c)
    \/ CrSet("X-A", "1")
    \/ \E o \in HeaderObjects : CrSetObject(o)
    \/ \E e \in TypeExtensions : CrType(e)
    \/ \E d \in DataKinds : CrJson(d)
    \/ \E d \in DataKinds : CrSend(d)
    \/ CrEnd

SpecWrapper == Init /\ [][NextWrapper]_vars

(***************************************************************************)
(* MIME resolver: the static table and the MimeTypes instances            *)
(***************************************************************************)

\* Bound on the number of MIME tables in memory: the static one, the
\* #localTypes of the instances and the maps getMimeList returned.
MaxHeap == 4

\* Extensions and types given to addType; an empty one of each.
AddExtensions == {<<"x">>, <<"H", "T", "M">>, <<>>, ProtoKey}
AddTypes == {"a/b", ""}

\* File paths given to getType and getMimeType.
FilePaths ==
    {<<"f", ".", "h", "t", "m", "l">>,
     <<"f", ".", "H", "T", "M">>,
     <<"f", ".", "x">>,
     <<"f", ".", "X">>,
     <<"f">>,
     <<".", "h", "t", "m", "l">>,
     <<"f", ".">>,
     <<"d", ".", "x", "/", "f">>,
     <<"a", "r", "c", "h", "i", "v", "e", ".", "u", "n", "k", "n", "o", "w", "n", "e", "x", "t">>,
     <<"f", ".", "c", "o", "n", "s", "t", "r", "u", "c", "t", "o", "r">>,
     <<"f", ".", "_", "_", "p", "r", "o", "t", "o", "_", "_">>}

\* new MimeTypes() sharing the static table instead of copying it (faulty
\* variant of the constructor).
newMimeTypesShared(h) == [heap |-> h, ref |-> 1]

\* new MimeTypes(): #localTypes is a new object holding the entries of the
\* static table.
newMimeTypes(h) == [heap |-> Append(h, h[1]), ref |-> Len(h) + 1]

\* getMimeList() of the instance whose #localTypes is h[ref]: a new object
\* holding the same entries.
getMimeList(h, ref) == [heap |-> Append(h, h[ref]), ref |-> Len(h) + 1]

\* Faulty variant of addType: the entry is written before mimeType is
\* checked.
addTypeLate(h, ref, extension, mimeType) ==
    IF extension = <<>> THEN [heap |-> h, threw |-> TRUE]
    ELSE [heap |-> [h EXCEPT ![ref] = ObjectSet(h[ref], ToLowerCase(extension), mimeType)],
          threw |-> mimeType = ""]

\* addType(extension, mimeType) of the instance whose #localTypes is h[ref].
addType(h, ref, extension, mimeType) ==
    IF extension = <<>> THEN [heap |-> h, threw |-> TRUE]
    ELSE IF mimeType = "" THEN [heap |-> h, threw |-> TRUE]
    ELSE [heap |-> [h EXCEPT ![ref] = ObjectSet(h[ref], ToLowerCase(extension), mimeType)],
          threw |-> FALSE]

\* A MimeTypes call, as recorded.
MimeCall(op, inst, extension, mimeType, file, threw, ret) ==
    [op |-> op, inst |-> inst, ext |-> extension, type |-> mimeType,
     file |-> file, threw |-> threw, ret |-> ret]

NewMimeTypes ==
    /\ Len(heap) < MaxHeap
    /\ LET n == newMimeTypes(heap)
       IN  /\ heap' = n.heap
           /\ localTypes' = Append(localTypes, n.ref)
           /\ mimeLast' = MimeCall("new", Len(localTypes) + 1, <<>>, "", <<>>, FALSE, "")
    /\ UNCHANGED <<lists, routerVars, ncalls, lastCall, requestVars, wrapperVars, hostVars>>

AddType(i, extension, mimeType) ==
    /\ i \in 1..Len(localTypes)
    /\ LET a == addType(heap, localTypes[i], extension, mimeType)
       IN  /\ heap' = a.heap
           /\ mimeLast' = MimeCall("addType", i, extension, mimeType, <<>>, a.threw, "")
    /\ UNCHANGED <<localTypes, lists, routerVars, ncalls, lastCall, requestVars, wrapperVars, hostVars>>

GetMimeList(i) ==
    /\ i \in 1..Len(localTypes)
    /\ Len(heap) < MaxHeap
    /\ LET g == getMimeList(heap, localTypes[i])
       IN  /\ heap' = g.heap
           /\ lists' = Append(lists, g.ref)
           /\ mimeLast' = MimeCall("getMimeList", i, <<>>, "", <<>>, FALSE, "")
    /\ UNCHANGED <<localTypes, routerVars, ncalls, lastCall, requestVars, wrapperVars, hostVars>>

\* The caller writes an entry into a map getMimeList returned.
MutateList(k, extension, mimeType) ==
    /\ k \in 1..Len(lists)
    /\ heap' = [heap EXCEPT ![lists[k]] = ObjectSet(heap[lists[k]], extension, mimeType)]
    /\ mimeLast' = MimeCall("mutateList", k, extension, mimeType, <<>>, FALSE, "")
    /\ UNCHANGED <<localTypes, lists, routerVars, ncalls, lastCall, requestVars, wrapperVars, hostVars>>

GetType(file) ==
    /\ mimeLast' = MimeCall("getType", 0, <<>>, "", file, FALSE, getTypeIn(heap[1], file))
    /\ UNCHANGED <<heap, localTypes, lists, routerVars, ncalls, lastCall, requestVars, wrapperVars, hostVars>>

GetMimeType(i, file) ==
    /\ i \in 1..Len(localTypes)
    /\ mimeLast' = MimeCall("getMimeType", i, <<>>, "", file, FALSE,
                            getMimeType(heap[localTypes[i]], file))
    /\ UNCHANGED <<heap, localTypes, lists, routerVars, ncalls, lastCall, requestVars, wrapperVars, hostVars>>

NextMime ==
    \/ NewMimeTypes
    \/ \E i \in 1..MaxHeap, e \in AddExtensions, t \in AddTypes : AddType(i, e, t)
    \/ \E i \in 1..MaxHeap : GetMimeList(i)
    \/ \E k \in 1..MaxHeap, e \in AddExtensions \ {<<>>} : MutateList(k, e, "m/l")
    \/ \E f \in FilePaths : GetType(f)
    \/ \E i \in 1..MaxHeap, f \in FilePaths : GetMimeType(i, f)

SpecMime == Init /\ [][NextMime]_vars

(***************************************************************************)
(* Server lifecycle: listen and close                                      *)
(***************************************************************************)

\* Bound on the number of listen calls made on one router.
MaxListens == 2

\* Ports given to listen.
Ports == {3000, 3001}

\* Second arguments of listen: nothing, a function, an options object with
\* key and cert, an options object without them, null.
SecondArgs == {"undefined", "function", "tlsOptions", "emptyOptions", "null"}

\* Third arguments of listen.
ThirdArgs == {"undefined", "function"}

\* typeof v.
TypeOf(v) ==
    CASE v = "function" -> "function"
      [] v \in {"tlsOptions", "emptyOptions", "null"} -> "object"
      [] OTHER -> "undefined"

\* The three cases of listen: the server it creates and the callback it
\* passes to server.listen.
listen(port, optionsOrCallback, callback) ==
    IF TypeOf(optionsOrCallback) = "function"
    THEN [protocol |-> "http", options |-> "undefined",
          listenCallback |-> optionsOrCallback, port |-> port]
    ELSE IF TypeOf(optionsOrCallback) = "object" /\ optionsOrCallback # "null"
    THEN [protocol |-> "https", options |-> optionsOrCallback,
          listenCallback |-> callback, port |-> port]
    ELSE [protocol |-> "http", options |-> "undefined",
          listenCallback |-> "undefined", port |-> port]

\* A port is taken while a server of this process listens on it.
PortInUse(svs, port) ==
    \E k \in DOMAIN svs : svs[k].port = port /\ svs[k].state = "listening"

\* server.listen(port, listenCallback): the server listens, or its 'error'
\* event (EADDRINUSE) is logged by the handler listen installed.
ServerListen(svs, server, args) ==
    [protocol |-> server.protocol, options |-> server.options,
     listenCallback |-> server.listenCallback, port |-> server.port,
     state |-> IF PortInUse(svs, server.port) THEN "failed" ELSE "listening",
     args |-> args]

\* this.#serverInstance?.close(): nothing on null; a listening server stops
\* listening; closing a server that does not listen changes nothing.
close(si, svs) ==
    IF si = 0 THEN svs
    ELSE [svs EXCEPT ![si].state = IF @ = "listening" THEN "closed" ELSE @]

Listen(port, optionsOrCallback, callback) ==
    /\ exc = "none"
    /\ Len(servers) < MaxListens
    /\ servers' = Append(servers,
                         ServerListen(servers, listen(port, optionsOrCallback, callback),
                                      <<optionsOrCallback, callback>>))
    /\ serverInstance' = Len(servers) + 1
    /\ lastLife' = [op |-> "listen", threw |-> FALSE]
    /\ UNCHANGED <<routerVars, ncalls, lastCall, requestVars, wrapperVars, mimeVars,
                   held, paramsHeap, paramsRef, parked>>

Close ==
    /\ exc = "none"
    /\ servers' = close(serverInstance, servers)
    /\ lastLife' = [op |-> "close", threw |-> FALSE]
    /\ UNCHANGED <<serverInstance, routerVars, ncalls, lastCall, requestVars,
                   wrapperVars, mimeVars, held, paramsHeap, paramsRef, parked>>

\* A client can get a request through to server k: the server listens and,
\* over TLS, has the key and certificate the handshake needs.
Serves(server) ==
    /\ server.state = "listening"
    /\ server.protocol = "https" => server.options = "tlsOptions"

\* Server k accepts a connection and delivers its request to #dispatch.
Accept(k, method, url, b) ==
    /\ k \in DOMAIN servers
    /\ Serves(servers[k])
    /\ Dispatch(method, url, b)

ServerPatterns == {<<"/", "a", "/", "b">>}
ServerUrls == {<<"/">>, <<"/", "a", "/", "b">>}

NextServer ==
    \/ \E port \in Ports, o \in SecondArgs, c \in ThirdArgs : Listen(port, o, c)
    \/ Close
    \/ \E p \in ServerPatterns, h \in Handlers : Get(p, h)
    \/ \E k \in 1..MaxListens, u \in ServerUrls, b \in {"return", "send"} :
            Accept(k, "GET", u, b)
    \/ HandlerFinalize
    \/ ExchangeOver

SpecServer == Init /\ [][NextServer]_vars

(***************************************************************************)
(* CORS policy: getCors, setCors and the maps the application holds        *)
(***************************************************************************)

\* Bound on the number of policy maps the application holds.
MaxHeld == 2

\* Header names the application writes into a map it holds.
MutatedHeaders == {"Access-Control-Allow-Origin", "X-Extra"}

\* Values it writes; "" removes the key.
MutatedValues == {"https://evil.example", ""}

\* A map the application holds: its content, whether it is the very object
\* #corsOptions refers to, and where it came from (built by the application,
\* given to the last setCors call, returned by getCors).
HeldMap(map, isPolicy, role) == [map |-> map, isPolicy |-> isPolicy, role |-> role]

\* Faulty variant of setCors: the caller's object itself becomes the policy.
setCorsShared(h, k) ==
    [corsOptions |-> h[k].map,
     held |-> [i \in DOMAIN h |-> [h[i] EXCEPT !.isPolicy = (i = k)]]]

\* setCors(options) with the held map k: #corsOptions becomes a new object
\* with the entries of options, which no held map is.
setCors(h, k) ==
    [corsOptions |-> h[k].map,
     held |-> [i \in DOMAIN h |-> [h[i] EXCEPT !.isPolicy = FALSE]]]

\* getCors(): a new object with the entries of #corsOptions.
getCors(cors, h) == Append(h, HeldMap(cors, FALSE, "got"))

\* obj[name] = value, or delete obj[name] when value is "".
WriteKey(map, name, value) ==
    IF value = ""
    THEN [n \in DOMAIN map \ {name} |-> map[n]]
    ELSE (name :> value) @@ map

\* The application builds a policy map.
NewPolicy(options) ==
    /\ exc = "none"
    /\ Len(held) < MaxHeld
    /\ held' = Append(held, HeldMap(options, FALSE, "app"))
    /\ UNCHANGED <<routerVars, ncalls, lastCall, requestVars, wrapperVars, mimeVars,
                   serverVars, paramsHeap, paramsRef, parked>>

\* setCors(m) for a map m the application keeps.
SetCorsHeld(k) ==
    /\ exc = "none"
    /\ ncalls < MaxCalls
    /\ k \in DOMAIN held
    /\ ncalls' = ncalls + 1
    /\ lastCall' = Call("setCors", <<>>, "")
    /\ LET o == setCors(held, k)
       IN  /\ corsOptions' = o.corsOptions
           /\ held' = [i \in DOMAIN held |->
                          [o.held[i] EXCEPT !.role = IF i = k THEN "given"
                                                     ELSE IF @ = "given" THEN "app" ELSE @]]
    /\ UNCHANGED <<gets, puts, posts, deletes, patchs, staticFolder,
                   isStaticServingEnabled>>
    /\ UNCHANGED <<requestVars, wrapperVars, mimeVars, serverVars, paramsHeap,
                   paramsRef, parked>>

GetCors ==
    /\ exc = "none"
    /\ Len(held) < MaxHeld
    /\ held' = getCors(corsOptions, held)
    /\ UNCHANGED <<routerVars, ncalls, lastCall, requestVars, wrapperVars, mimeVars,
                   serverVars, paramsHeap, paramsRef, parked>>

\* The application adds, reassigns or removes a key of a map it holds; the
\* write lands in #corsOptions when the map is that object.
MutateMap(k, name, value) ==
    /\ exc = "none"
    /\ k \in DOMAIN held
    /\ WriteKey(held[k].map, name, value) # held[k].map
    /\ held' = [held EXCEPT ![k].map = WriteKey(@, name, value)]
    /\ corsOptions' = IF held[k].isPolicy
                      THEN WriteKey(corsOptions, name, value)
                      ELSE corsOptions
    /\ UNCHANGED <<gets, puts, posts, deletes, patchs, staticFolder,
                   isStaticServingEnabled>>
    /\ UNCHANGED <<ncalls, lastCall, requestVars, wrapperVars, mimeVars, serverVars,
                   paramsHeap, paramsRef, parked>>

NextCors ==
    \/ \E o \in CorsPolicies : NewPolicy(o)
    \/ \E k \in 1..MaxHeld : SetCorsHeld(k)
    \/ GetCors
    \/ \E k \in 1..MaxHeld, n \in MutatedHeaders, v \in MutatedValues : MutateMap(k, n, v)
    \/ \E m \in {"OPTIONS", "GET"} : Dispatch(m, <<"/">>, "return")
    \/ ExchangeOver

SpecCors == Init /\ [][NextCors]_vars

(***************************************************************************)
(* Requests in flight together: the params object of each                  *)
(***************************************************************************)

\* Bound on the number of requests whose handler awaits something, and on
\* the number of params objects created.
MaxParked == 2
MaxParams == 3

ConcurrentPatterns == {<<"/", "a", "/", ":", "x">>, <<"/", ":", "x">>}
ConcurrentUrls == {<<"/", "a", "/", "b">>, <<"/", "a", "/", "c">>, <<"/", "b">>, <<"/">>}

\* Faulty variant: one params object serves every request.
newParamsShared(h, params) ==
    IF h = <<>> THEN [heap |-> <<params>>, ref |-> 1]
    ELSE [heap |-> [h EXCEPT ![1] = params @@ @], ref |-> 1]

\* const params = {} and the assignments of the loop body: a new object
\* that holds the parameters of this request.
newParams(h, params) == [heap |-> Append(h, params), ref |-> Len(h) + 1]

\* #dispatch receives a request while others are in flight; req.params of a
\* matched request refers to the object the loop body created.
DispatchInFlight(method, url, b) ==
    /\ exc = "none"
    /\ pc = "idle"
    /\ Len(paramsHeap) < MaxParams
    /\ b \in BehavioursAt(Tables, method, url)
    /\ LET o == dispatch(Tables, isStaticServingEnabled, staticFolder,
                         corsOptions, method, url, b)
           n == newParams(paramsHeap, o.req.params)
       IN  /\ SetRequest(o)
           /\ paramsHeap' = IF o.req.hasParams THEN n.heap ELSE paramsHeap
           /\ paramsRef' = IF o.req.hasParams THEN n.ref ELSE 0
    /\ UNCHANGED <<routerVars, ncalls, lastCall, wrapperVars, mimeVars, serverVars,
                   held, parked>>

\* The handler returned while it awaits something (a promise, a timer): its
\* request stays in flight and the server goes on to the next one.
Park ==
    /\ exc = "none"
    /\ pc = "handed"
    /\ Len(parked) < MaxParked
    /\ parked' = Append(parked, [req |-> req, res |-> res, ref |-> paramsRef])
    /\ req' = NoRequest
    /\ res' = FreshRes
    /\ pc' = "idle"
    /\ filePath' = <<>>
    /\ invoked' = <<>>
    /\ behaviour' = "none"
    /\ fsOps' = <<>>
    /\ paramsRef' = 0
    /\ UNCHANGED <<routerVars, ncalls, lastCall, exc, wrapperVars, mimeVars, serverVars,
                   held, paramsHeap>>

\* The handler of a parked request sends its response.
ParkedFinalize(k) ==
    /\ exc = "none"
    /\ k \in DOMAIN parked
    /\ parked' = [i \in 1..(Len(parked) - 1) |-> IF i < k THEN parked[i] ELSE parked[i + 1]]
    /\ UNCHANGED <<routerVars, ncalls, lastCall, requestVars, wrapperVars, mimeVars,
                   serverVars, held, paramsHeap, paramsRef>>

NextConcurrent ==
    \/ \E p \in ConcurrentPatterns, h \in Handlers : Get(p, h)
    \/ \E u \in ConcurrentUrls, b \in {"return", "send"} : DispatchInFlight("GET", u, b)
    \/ Park
    \/ \E k \in 1..MaxParked : ParkedFinalize(k)
    \/ HandlerFinalize
    \/ ExchangeOver

SpecConcurrent == Init /\ [][NextConcurrent]_vars

(***************************************************************************)
(* Properties                                                              *)
(***************************************************************************)

\* A step in which #dispatch receives a request.
IsDispatchStep == pc = "idle" /\ pc' # "idle"

\* A step that is a configuration call.
IsCallStep == ncalls' = ncalls + 1

\* The route list of a request method, as the router holds it now.
ListFor(method) ==
    CASE method = "GET"    -> gets
      [] method = "PUT"    -> puts
      [] method = "POST"   -> posts
      [] method = "DELETE" -> deletes
      [] method = "PATCH"  -> patchs
      [] OTHER             -> <<>>

\* The indices of the routes of a list whose matcher matches the path.
MatchSet(list, pathname) ==
    {i \in 1..Len(list) : RegexExec(list[i].regex, pathname).matched}

Least(m) == CHOOSE i \in m : \A j \in m : i <= j

HeaderIs(r, name, value) == name \in DOMAIN r.headers /\ r.headers[name] = value

\* The non-empty '/'-separated segments of a pattern or path.
RECURSIVE NonEmpty(_)
NonEmpty(parts) ==
    IF Len(parts) = 0 THEN <<>>
    ELSE IF parts[1] = <<>> THEN NonEmpty(Tail(parts))
    ELSE <<parts[1]>> \o NonEmpty(Tail(parts))

PatternSegments(routePattern) == NonEmpty(Split(ReplaceBackslash(routePattern), "/"))

\* C1: First match wins. A request with a routed method whose list holds
\* at least one route matching the path invokes exactly one handler, that of
\* the earliest-registered matching route of that list, whatever routes
\* (more specific ones included) follow it.
C1_FirstMatchWins ==
    [][(IsDispatchStep /\ req'.method \in RouteMethods /\ UrlParses(req'.url)) =>
          LET m == MatchSet(ListFor(req'.method), Pathname(req'.url))
          IN  m # {} => invoked' = <<Least(m)>>]_vars

\* C1 witness: GET /a/:x registered before GET /a/b, request /a/b: the
\* /a/:x handler ran with params {x: b}.
C1_Witness ==
    /\ Len(gets) = 2
    /\ gets[1].routePattern = <<"/", "a", "/", ":", "x">>
    /\ gets[2].routePattern = <<"/", "a", "/", "b">>
    /\ gets[1].handler # gets[2].handler
    /\ req.method = "GET"
    /\ req.url = <<"/", "a", "/", "b">>
    /\ invoked = <<1>>
    /\ req.params = (<<"x">> :> <<"b">>)

\* C2: Parameter extraction. When a route matches, the params attached to
\* the request have exactly the names of the pattern's ':' segments as keys,
\* each mapped to the (non-empty) path segment at the position of its
\* segment among the pattern's non-empty segments.
C2_ParamsExact ==
    [][(IsDispatchStep /\ invoked' # <<>>) =>
          LET route == ListFor(req'.method)[invoked'[1]]
              segs  == PatternSegments(route.routePattern)
              parts == Split(Tail(Pathname(req'.url)), "/")
              at    == {k \in 1..Len(segs) : segs[k][1] = ":"}
          IN  /\ req'.hasParams
              /\ DOMAIN req'.params = {Tail(segs[k]) : k \in at}
              /\ \A k \in at :
                    /\ parts[k] # <<>>
                    /\ req'.params[Tail(segs[k])] = parts[k]]_vars

\* C2 witness: a two-parameter pattern matched, both parameters extracted.
C2_Witness ==
    /\ invoked # <<>>
    /\ req.method = "GET"
    /\ gets[invoked[1]].routePattern = <<"/", ":", "x", "/", ":", "y">>
    /\ req.url = <<"/", "b", "/", "a">>
    /\ req.params = (<<"x">> :> <<"b">>) @@ (<<"y">> :> <<"a">>)

\* C3: Method isolation. A registration through one of get, put, post,
\* delete, patch appends to the list of that method only; and a request
\* whose own method list holds no matching route invokes no handler,
\* whatever the other lists hold: it goes to static serving or gets a 404.
C3_MethodIsolation ==
    [][/\ (IsCallStep /\ lastCall'.op \in {"get", "put", "post", "delete", "patch"}) =>
             LET r == RouteOf(lastCall'.routePattern, lastCall'.callback)
                 grown(l) == l = CASE lastCall'.op = "get"    -> "GET"
                                   [] lastCall'.op = "put"    -> "PUT"
                                   [] lastCall'.op = "post"   -> "POST"
                                   [] lastCall'.op = "delete" -> "DELETE"
                                   [] lastCall'.op = "patch"  -> "PATCH"
                 new(l, old, now) ==
                     IF grown(l) THEN now \in {old, Append(old, r)} ELSE now = old
             IN  /\ new("GET", gets, gets')
                 /\ new("PUT", puts, puts')
                 /\ new("POST", posts, posts')
                 /\ new("DELETE", deletes, deletes')
                 /\ new("PATCH", patchs, patchs')
       /\ (IsDispatchStep /\ req'.method # "OPTIONS" /\ UrlParses(req'.url)
           /\ MatchSet(ListFor(req'.method), Pathname(req'.url)) = {}) =>
             /\ invoked' = <<>>
             /\ \/ pc' = "stat"
                \/ pc' = "done" /\ res'.statusCode = 404]_vars

\* C3 witness: a route registered by post only, a GET request to its path:
\* no handler ran, the answer is 404.
C3_Witness ==
    /\ lastCall.op = "post"
    /\ gets = <<>>
    /\ Len(posts) = 1
    /\ req.method = "GET"
    /\ RegexExec(posts[1].regex, Pathname(req.url)).matched
    /\ invoked = <<>>
    /\ pc = "done"
    /\ res.statusCode = 404

\* C4: ALL registration. all(pattern, h) appends one route with handler h
\* and the compiled pattern at the end of each of the five lists (what get,
\* put, post, delete, patch in that order leave), and changes nothing else.
C4_AllRegistersFive ==
    [][(IsCallStep /\ lastCall'.op = "all") =>
          LET r == RouteOf(lastCall'.routePattern, lastCall'.callback)
          IN  IF RegExpCompiles(pathToRegex(lastCall'.routePattern))
              THEN /\ gets' = Append(gets, r)
                   /\ puts' = Append(puts, r)
                   /\ posts' = Append(posts, r)
                   /\ deletes' = Append(deletes, r)
                   /\ patchs' = Append(patchs, r)
                   /\ UNCHANGED <<staticFolder, isStaticServingEnabled, corsOptions>>
              ELSE UNCHANGED routerVars]_vars

\* C4 witness: after get then all, a PATCH request to the path ran the
\* handler given to all, the only route of the PATCH list.
C4_Witness ==
    /\ lastCall.op = "all"
    /\ Len(gets) = 2
    /\ Len(patchs) = 1
    /\ patchs[1].handler = lastCall.callback
    /\ gets[2] = patchs[1]
    /\ req.method = "PATCH"
    /\ invoked = <<1>>

\* C5: OPTIONS preflight. Whatever the routes, the static setting, the CORS
\* policy and the path, an OPTIONS request is answered 204 with an empty body
\* and every header of the current policy; no handler runs and no
\* filesystem call is made.
C5_Preflight ==
    [][(IsDispatchStep /\ req'.method = "OPTIONS") =>
          /\ pc' = "done"
          /\ exc' = "none"
          /\ res'.statusCode = 204
          /\ res'.headersSent
          /\ res'.finished
          /\ res'.body = <<>>
          /\ \A h \in DOMAIN corsOptions : HeaderIs(res', h, corsOptions[h])
          /\ invoked' = <<>>
          /\ fsOps' = <<>>]_vars

\* C5 witness: static serving on, a policy set by setCors, an OPTIONS
\* request for a path that exists as a file: 204 with the policy's header.
C5_Witness ==
    /\ req.method = "OPTIONS"
    /\ req.url = <<"/", "c", ".", "c", "s", "s">>
    /\ isStaticServingEnabled
    /\ corsOptions # DefaultCors
    /\ HeaderIs(res, "Access-Control-Allow-Origin", "https://app.example")
    /\ res.statusCode = 204

\* The request went to the static resolver.
IsStatic == fsOps # <<>>

\* The candidate path of the static resolver: the path given to fs.stat.
Candidate == fsOps[1].path

\* The request path has a segment that begins with '.'.
HasDotSegment(pathname) ==
    \E k \in 1..Len(Split(Tail(pathname), "/")) :
        StartsWith(Split(Tail(pathname), "/")[k], ".")

\* The filesystem calls of the request that check access to, or open, path.
Probes(path) ==
    {k \in 1..Len(fsOps) :
        fsOps[k].op \in {"access", "createReadStream"} /\ fsOps[k].path = path}

\* C6: Handler exception isolation. Whatever a matched handler did before
\* it threw (nothing, set a header, sent the response), the request ends
\* with a 500 plain-text response carrying the error's string form and no
\* exception leaves dispatch.
C6_HandlerExceptionIsolated ==
    (pc # "idle" /\ behaviour \in {"throw", "setThrow", "sendThrow"}) =>
        /\ pc = "done"
        /\ exc = "none"
        /\ Len(invoked) = 1
        /\ res.statusCode = 500
        /\ HeaderIs(res, "Content-Type", "text/plain")
        /\ res.body = <<"Internal Server Error : ", ErrorText>>
        /\ res.finished

C8_DotfileRejected ==
    (IsStatic /\ HasDotSegment(Pathname(req.url))
     /\ (res.headersSent \/ pc \in {"done", "crashed"})) =>
        /\ pc = "done"
        /\ exc = "none"
        /\ res.statusCode = 403
        /\ res.body = <<"Forbidden">>
        /\ Probes(Candidate) = {}

\* C9: Directory without index. When the candidate path is a directory
\* with no readable index.html, the answer is 404 "File Not Found" and that
\* is all: no further filesystem call is made for the request, nothing more
\* is written and nothing is thrown.
C9_DirectoryWithoutIndex ==
    (IsStatic /\ StatIsDirectory(Candidate)
     /\ ~Readable(PathJoin(Candidate, IndexHtml))
     /\ pc \notin {"stat", "indexAccess"}) =>
        /\ pc = "done"
        /\ exc = "none"
        /\ res.statusCode = 404
        /\ res.body = <<"File Not Found">>
        /\ res.finished
        /\ Len(fsOps) = 2

\* The static resolver has written its answer for a candidate directory
\* that holds a readable index.html.
IndexAnswered ==
    /\ IsStatic
    /\ StatIsDirectory(Candidate)
    /\ Readable(PathJoin(Candidate, IndexHtml))
    /\ pc \in {"stream", "done", "crashed"}

IndexServed ==
    /\ res.statusCode = 200
    /\ HeaderIs(res, "Content-Type", "text/html")
    /\ \E k \in 1..Len(fsOps) :
          fsOps[k] = [op |-> "createReadStream", path |-> PathJoin(Candidate, IndexHtml)]

\* C10 as stated: a candidate directory with a readable index.html is
\* answered with that index.html, status 200 and Content-Type text/html.
C10_DirectoryIndexAlways == IndexAnswered => IndexServed

\* C10 amended: a candidate directory with a readable index.html whose
\* joined index path holds no '/' followed by '.' (no dot-prefixed segment
\* after the first, from the request path or from the root folder) is
\* answered with that index.html, status 200 and Content-Type text/html.
C10_DirectoryIndex ==
    (IndexAnswered /\ ~Contains2(PathJoin(Candidate, IndexHtml), "/", ".")) =>
        IndexServed

\* C10 witness: root ./pub, request '/': pub/index.html was sent with
\* status 200 and Content-Type text/html.
C10_Witness ==
    /\ staticFolder = <<".", "/", "p", "u", "b">>
    /\ req.url = <<"/">>
    /\ pc = "done"
    /\ res.statusCode = 200
    /\ HeaderIs(res, "Content-Type", "text/html")
    /\ res.body = <<"(file content)">>
    /\ fsOps[Len(fsOps)].path = <<"p", "u", "b", "/">> \o IndexHtml

\* The candidate path names something: a directory or a file.
Exists(p) == StripTrailingSlash(p) \in FsDirs \/ p \in FsFiles

\* The static resolver has answered the request (or was cut short by an
\* exception after it did).
StaticAnswered == IsStatic /\ pc \in {"done", "crashed"}

\* A request that matches a route of its method's list is answered by the
\* handler and issues no filesystem call, static serving enabled or not.
RouteBeforeStatic ==
    /\ [][(IsDispatchStep /\ isStaticServingEnabled
            /\ req'.method \in RouteMethods /\ UrlParses(req'.url)
            /\ MatchSet(ListFor(req'.method), Pathname(req'.url)) # {})
          => (/\ invoked' = <<Least(MatchSet(ListFor(req'.method), Pathname(req'.url)))>>
              /\ fsOps' = <<>>
              /\ pc' \in {"handed", "done", "crashed"})]_vars
    /\ [](invoked # <<>> => (fsOps = <<>> /\ pc \notin {"stat", "indexAccess", "access", "stream"}))

\* An unmatched request for an existing readable file got 200 and the
\* Content-Type of the file's extension.
FileHit(p) ==
    /\ res.statusCode = 200
    /\ HeaderIs(res, "Content-Type", getType(p))

\* An unmatched request got 404 "File Not Found".
FileMiss ==
    /\ res.statusCode = 404
    /\ res.body = <<"File Not Found">>
    /\ res.finished

\* C11 as stated: routes come first; an unmatched request for an existing
\* readable file is answered 200 with the Content-Type of its extension; an
\* unmatched request for a path that does not exist is answered 404
\* "File Not Found".
C11_StaticHitMissAlways ==
    /\ RouteBeforeStatic
    /\ []((IsStatic /\ pc \in {"stream", "done", "crashed"}
            /\ Candidate \in FsFiles \ FsUnreadable) => FileHit(Candidate))
    /\ []((StaticAnswered /\ ~Exists(Candidate)) => FileMiss)

\* C11 amended: the same, for candidate paths that hold no '/' followed by
\* '.' (the paths the dotfile test of #serveFile lets through).
C11_StaticHitMiss ==
    /\ RouteBeforeStatic
    /\ []((IsStatic /\ pc \in {"stream", "done", "crashed"}
            /\ Candidate \in FsFiles \ FsUnreadable
            /\ ~Contains2(Candidate, "/", ".")) => FileHit(Candidate))
    /\ []((StaticAnswered /\ ~Exists(Candidate)
            /\ ~Contains2(Candidate, "/", ".")) => FileMiss)

\* C11 witness: root ./pub, GET /c.css with no route for it: pub/c.css was
\* sent with status 200 and Content-Type text/css.
C11_Witness ==
    /\ isStaticServingEnabled
    /\ req.method = "GET"
    /\ req.url = <<"/", "c", ".", "c", "s", "s">>
    /\ invoked = <<>>
    /\ pc = "done"
    /\ res.statusCode = 200
    /\ HeaderIs(res, "Content-Type", "text/css")
    /\ res.body = <<"(file content)">>

\* The response carries every header of the policy.
HasCors(r, cors) == \A h \in DOMAIN cors : HeaderIs(r, h, cors[h])

\* C12: every response the dispatcher produces carries all headers of the
\* current CorsPolicy: a matched route's response has them set before the
\* handler runs, and every step that sends the headers of a response
\* (preflight, 500 for a throwing handler, static 200, static 404 and 403,
\* "Route Not Found" 404) sends them with the policy's headers.
C12_CorsOnEveryResponse ==
    [][/\ (IsDispatchStep /\ invoked' # <<>>) => HasCors(res', corsOptions)
       /\ (~res.headersSent /\ res'.headersSent /\ pc # "handed")
             => HasCors(res', corsOptions)]_vars

\* A request is with the dispatcher, and the handler it matched (if any)
\* finalizes or throws before it returns.
Delivered == pc # "idle" /\ behaviour # "return"

\* The read stream of a static transfer emitted an error after the 200
\* header was written.
StreamFailed ==
    /\ pc = "crashed"
    /\ fsOps # <<>>
    /\ fsOps[Len(fsOps)].op = "createReadStream"

\* C13: under fair scheduling of the filesystem callbacks every request
\* delivered to dispatch eventually has a completed response (preflight,
\* matched route whose handler finalizes or throws synchronously, static
\* hit, miss or forbidden, no-route 404); a transfer cut short by a read
\* error is not among these branches and is set aside.
C13_EveryRequestAnswered == Delivered ~> (res.finished \/ StreamFailed)

\* A step in which the handler makes the call op on the wrapper.
IsCrStep(op) == ncr' = ncr + 1 /\ crLast'.op = op

IsFinalizerStep == IsCrStep("json") \/ IsCrStep("send") \/ IsCrStep("end")

\* The status a finalizer writes: the buffered one, or 200.
FinalStatus(w) == IF w.statusCode # 0 THEN w.statusCode ELSE 200

\* C14: a status(code) call made once the headers are sent raises nothing
\* and changes neither the buffered status code nor the response (the
\* status sent included).
C14_StatusAfterFinalizer ==
    [][(IsCrStep("status") /\ coreRes.res.headersSent) =>
          /\ ~crLast'.threw
          /\ coreRes'.statusCode = coreRes.statusCode
          /\ coreRes'.res = coreRes.res]_vars

\* C14 witness: status(404), a finalizer, then status(201): 404 is still
\* the buffered code and the code sent.
C14_Witness ==
    /\ crLast.op = "status"
    /\ crLast.arg = 201
    /\ ~crLast.threw
    /\ coreRes.res.finished
    /\ coreRes.statusCode = 404
    /\ coreRes.res.statusCode = 404

\* C15: once the headers are sent, set(header, value), set(object) and
\* type(extension) raise no error and change nothing.
C15_HeaderMutationIgnored ==
    [][((IsCrStep("set") \/ IsCrStep("setObject") \/ IsCrStep("type"))
        /\ coreRes.res.headersSent) =>
          /\ ~crLast'.threw
          /\ coreRes' = coreRes]_vars

\* C16: status(c) before the headers are sent buffers c and no other call
\* touches the buffer; the first finalizer that returns has written the
\* headers, and whenever it has written them the status is the buffered one
\* (200 without any) and the response is ended.
C16_FinalizerStatus ==
    [][/\ (IsCrStep("status") /\ ~coreRes.res.headersSent)
             => coreRes'.statusCode = crLast'.arg
       /\ (ncr' = ncr + 1 /\ crLast'.op # "status")
             => coreRes'.statusCode = coreRes.statusCode
       /\ (IsFinalizerStep /\ ~coreRes.res.headersSent) =>
             /\ ~crLast'.threw => coreRes'.res.headersSent
             /\ coreRes'.res.headersSent =>
                   /\ coreRes'.res.statusCode = FinalStatus(coreRes)
                   /\ coreRes'.res.finished]_vars

\* What send(d) as the first finalizer has to leave behind.
SentAs(d, contentType, chunks) ==
    /\ ~crLast'.threw
    /\ HeaderIs(coreRes'.res, "Content-Type", contentType)
    /\ coreRes'.res.body = chunks
    /\ coreRes'.res.finished

SendByKind(d) ==
    CASE d = "string"        -> SentAs(d, "text/plain", <<"hi">>)
      [] d = "bufferPng"     -> SentAs(d, "image/png", Raw(d))
      [] d = "bufferUnknown" -> SentAs(d, "application/octet-stream", Raw(d))
      [] d = "object"        -> SentAs(d, "application/json", <<"{\"a\":1}">>)
      [] d = "array"         -> SentAs(d, "application/json", <<"[1,2]">>)
      [] d = "circular"      -> HeaderIs(coreRes'.res, "Content-Type", "application/json")
                                /\ coreRes'.res.finished
      [] d = "null"          -> SentAs(d, "text/plain", <<"null">>)
      [] d = "undefined"     -> SentAs(d, "text/plain", <<"undefined">>)
      [] d = "number"        -> SentAs(d, "text/plain", <<"42">>)
      [] d = "boolean"       -> SentAs(d, "text/plain", <<"true">>)

TableType(table, file) ==
    LET e == ToLowerCase(ExtName(file))
    IN  IF e \in DOMAIN table THEN table[e] ELSE "application/octet-stream"

\* C18: getType(file) and getMimeType(file) return the entry of their table
\* for the extension of the path, case-insensitively and dot-stripped, and
\* application/octet-stream when the extension is missing or not in the
\* table.
C18_MimeLookup ==
    /\ mimeLast.op = "getType" => mimeLast.ret = TableType(heap[1], mimeLast.file)
    /\ mimeLast.op = "getMimeType" =>
          mimeLast.ret = TableType(heap[localTypes[mimeLast.inst]], mimeLast.file)

\* The table of instance i.
LocalTable(h, refs, i) == h[refs[i]]

C20_AddTypeRejectsEmpty ==
    [][(mimeLast'.op = "addType" /\ (mimeLast'.ext = <<>> \/ mimeLast'.type = "")) =>
          /\ mimeLast'.threw
          /\ heap' = heap]_mimeVars

\* C20 witness: addType('x', '') on an instance that holds an earlier
\* addition: the call threw, the table has the earlier entry and none for x.
C20_Witness ==
    /\ mimeLast.op = "addType" /\ mimeLast.threw
    /\ mimeLast.ext = <<"x">> /\ mimeLast.type = ""
    /\ LocalTable(heap, localTypes, mimeLast.inst)[<<"h", "t", "m">>] = "a/b"
    /\ <<"x">> \notin DOMAIN LocalTable(heap, localTypes, mimeLast.inst)

\* C21: the server handle is null until the first listen, close() before any
\* listen does nothing and raises nothing, and no request is dispatched
\* between a close() and the next listen.
C21_ServerLifecycle ==
    [][/\ lastLife.op = "new" => serverInstance = 0
       /\ (lastLife'.op = "close" /\ serverInstance = 0)
              => (servers' = servers /\ ~lastLife'.threw)
       /\ IsDispatchStep => lastLife.op = "listen"]_vars

\* C30: listen starts HTTPS only when the second argument carries key and
\* cert, HTTP otherwise, and hands the startup callback to the listener in
\* both cases.
C30_ProtocolSelection ==
    \A k \in DOMAIN servers :
        LET server == servers[k]
            given == \/ server.args[1] = "function"
                     \/ server.args[1] = "tlsOptions" /\ server.args[2] = "function"
        IN  /\ server.protocol = "https" <=> server.args[1] = "tlsOptions"
            /\ given => server.listenCallback = "function"

\* A step in which setCors is called, getCors is called, the application
\* writes into a map it holds.
IsSetCorsStep == ncalls' = ncalls + 1 /\ lastCall'.op = "setCors"
IsGetCorsStep == Len(held') = Len(held) + 1 /\ held'[Len(held')].role = "got"
IsMutateStep == Len(held') = Len(held) /\ ncalls' = ncalls /\ held' # held

\* C22: getCors() of a new router returns the default policy; setCors(m)
\* replaces the whole policy by the entries of m, so that getCors() then
\* returns a map equal to m; writing into a map returned by getCors(), or into
\* m after the call, changes neither the policy nor the headers of later
\* responses.
C22_CorsGetSet ==
    [][/\ IsGetCorsStep =>
              /\ held'[Len(held')].map = corsOptions
              /\ ncalls = 0 => held'[Len(held')].map = DefaultCors
       /\ IsSetCorsStep =>
              \A k \in DOMAIN held : held'[k].role = "given" => corsOptions' = held[k].map
       /\ IsMutateStep => corsOptions' = corsOptions
       /\ (IsDispatchStep /\ req'.method = "OPTIONS") =>
              /\ res'.headers = corsOptions
              /\ ncalls = 0 => res'.headers = DefaultCors]_vars

\* C22 witness: a preflight was answered with the policy of the last setCors
\* call after the application had changed the map it gave to that call and
\* a map it got from getCors().
C22_Witness ==
    /\ pc = "done" /\ req.method = "OPTIONS"
    /\ Len(held) = 2
    /\ held[1].role = "given" /\ held[1].map # corsOptions
    /\ held[2].role = "got" /\ held[2].map # corsOptions
    /\ res.headers = corsOptions
    /\ corsOptions # DefaultCors

\* C23: when the handler of the matched route returns without throwing,
\* dispatch leaves the response as the handler left it: it writes no status
\* line and no body and does not end it, the CORS headers set before the call
\* are all it contributed, and neither the static resolver nor the 404
\* answer runs.
C23_NoFinalizeAfterHandler ==
    [][(IsDispatchStep /\ invoked' # <<>> /\ behaviour' \in {"return", "send"}) =>
          /\ res' = RunHandler(behaviour', applyCorsHeaders(FreshRes, corsOptions).res).res
          /\ fsOps' = <<>>
          /\ exc' = "none"
          /\ behaviour' = "return" =>
                /\ pc' = "handed"
                /\ res'.headers = corsOptions
                /\ res'.statusCode = 0 /\ ~res'.headersSent
                /\ res'.body = <<>> /\ ~res'.finished]_vars

\* C23 witness: a handler returned without touching the response, which
\* carries the policy set by setCors and is still open.
C23_Witness ==
    /\ pc = "handed" /\ behaviour = "return" /\ invoked # <<>>
    /\ res.headers = corsOptions /\ corsOptions # DefaultCors
    /\ ~res.finished /\ res.statusCode = 0

\* A list of parameter names that holds one name twice.
DupNames(names) == \E i, j \in DOMAIN names : i < j /\ names[i] = names[j]

\* C24: registering a pattern that names two parameters alike succeeds, and
\* on a match the parameter takes the value of the last segment of that name.
C24_DuplicateNamesAccepted ==
    [][/\ (IsCallStep /\ lastCall'.op = "get"
             /\ DupNames(pathToRegex(lastCall'.routePattern).paramNames))
          => Len(gets') = Len(gets) + 1
       /\ (IsDispatchStep /\ invoked' # <<>> /\ DupNames(gets[invoked'[1]].paramNames))
          => LET ps == PatternSegments(gets[invoked'[1]].routePattern)
                 segs == NonEmpty(Split(Pathname(req'.url), "/"))
             IN  \A i \in DOMAIN ps :
                    (StartsWith(ps[i], ":") /\ \A j \in DOMAIN ps : j > i => ps[j] # ps[i])
                    => /\ Tail(ps[i]) \in DOMAIN req'.params
                       /\ req'.params[Tail(ps[i])] = segs[i]]_vars

\* A stream 'error' step: the transfer stops otherwise than by reaching the
\* end of the file.
IsStreamErrorStep ==
    /\ pc = "stream" /\ pc' # "stream"
    /\ ~(pc' = "done" /\ res'.finished /\ res'.statusCode = 200)

\* C25: when the read stream fails after the 200 header was written, the
\* 500 attempt raises nothing out of the error callback and ends only that
\* request; the router goes on serving.
C25_StreamFailureConfined ==
    [][IsStreamErrorStep => (exc' = "none" /\ pc' = "done")]_vars

\* A path is '/' followed by as many '/'-separated parts as the pattern has
\* segments, each literal segment equal to its part and each parameter
\* segment facing a non-empty part; no segment: the path is '/'.
WholePathMatch(segs, pathname) ==
    LET parts == Split(Tail(pathname), "/")
    IN  /\ StartsWith(pathname, "/")
        /\ IF segs = <<>> THEN pathname = <<"/">>
           ELSE /\ Len(parts) = Len(segs)
                /\ \A i \in DOMAIN segs :
                      IF StartsWith(segs[i], ":") THEN parts[i] # <<>>
                      ELSE parts[i] = segs[i]

\* Whether a registered route matches the path of a request target.
RouteMatches(route, url) == RegexExec(route.regex, Pathname(url)).matched

RECURSIVE NamedSegments(_)
NamedSegments(segs) ==
    IF segs = <<>> THEN <<>>
    ELSE IF StartsWith(Head(segs), ":")
    THEN <<Tail(Head(segs))>> \o NamedSegments(Tail(segs))
    ELSE NamedSegments(Tail(segs))

\* The number of named capture groups of a matcher.
NamedCaptures(regex) == Cardinality({k \in DOMAIN regex : regex[k].kind = "param"})

\* Every route of the five lists.
AllRoutes ==
    {gets[i] : i \in DOMAIN gets} \cup {puts[i] : i \in DOMAIN puts}
    \cup {posts[i] : i \in DOMAIN posts} \cup {deletes[i] : i \in DOMAIN deletes}
    \cup {patchs[i] : i \in DOMAIN patchs}

ParamsOfPath(url) ==
    LET hit == MatchedRoutes(gets, Pathname(url))
    IN  ParamsOf(gets[hit[1]], RegexExec(gets[hit[1]].regex, Pathname(url)).parts)

\* The requests in flight: the parked ones and the one being handled.
InFlight ==
    {[url |-> parked[k].req.url, ref |-> parked[k].ref] :
        k \in {i \in DOMAIN parked : parked[i].req.hasParams}}
    \cup (IF req.hasParams THEN {[url |-> req.url, ref |-> paramsRef]} ELSE {})

\* C28: every matched request in flight has a params object of its own,
\* which holds exactly the parameters of that request's path, whatever other
\* requests were dispatched since.
C28_ParamsPerRequest ==
    /\ \A r \in InFlight : paramsHeap[r.ref] = ParamsOfPath(r.url)
    /\ \A k \in DOMAIN parked :
          parked[k].req.hasParams =>
              /\ parked[k].ref # paramsRef
              /\ \A j \in DOMAIN parked : j # k => parked[j].ref # parked[k].ref

\* C28 witness: three matched requests are in flight, two of them on the
\* same route with different parameter values.
C28_Witness ==
    /\ Len(parked) = 2 /\ pc = "handed" /\ req.hasParams
    /\ parked[1].req.url = <<"/", "a", "/", "b">>
    /\ parked[2].req.url = <<"/", "a", "/", "c">>
    /\ req.url = <<"/", "b">>
    /\ paramsHeap[parked[1].ref] # paramsHeap[parked[2].ref]

\* The lists a registration method targets.
Targets(op) ==
    CASE op = "get"    -> {"gets"}
      [] op = "put"    -> {"puts"}
      [] op = "post"   -> {"posts"}
      [] op = "delete" -> {"deletes"}
      [] op = "patch"  -> {"patchs"}
      [] op = "all"    -> {"gets", "puts", "posts", "deletes", "patchs"}
      [] OTHER         -> {}

\* C29: a registration appends one route at the end of each list it targets
\* and touches nothing else (a registration that throws on its pattern
\* touches nothing at all); no step removes, reorders or modifies a route;
\* dispatching a request and the callbacks that follow leave the five lists,
\* the CORS policy and the static configuration unchanged; serveStaticFiles
\* turns static serving on, and nothing turns it off.
C29_AppendOnlyReadOnly ==
    [][/\ IsCallStep =>
             LET c == lastCall'
                 route == RouteOf(c.routePattern, c.callback)
                 compiles == RegExpCompiles(pathToRegex(c.routePattern))
                 after == [gets |-> gets', puts |-> puts', posts |-> posts',
                           deletes |-> deletes', patchs |-> patchs']
             IN  /\ \A l \in DOMAIN Tables :
                       after[l] = IF l \in Targets(c.op) /\ compiles
                                  THEN Append(Tables[l], route)
                                  ELSE Tables[l]
                 /\ c.op # "setCors" => corsOptions' = corsOptions
                 /\ c.op # "serveStaticFiles" =>
                       UNCHANGED <<staticFolder, isStaticServingEnabled>>
                 /\ c.op = "serveStaticFiles" =>
                       isStaticServingEnabled' /\ staticFolder' = c.routePattern
       /\ ~IsCallStep => UNCHANGED routerVars
       /\ isStaticServingEnabled => isStaticServingEnabled']_vars

\* C29 witness: two registrations filled a list in call order, and a request
\* was then dispatched and answered.
C29_Witness ==
    /\ Len(gets) = 2
    /\ gets[1].routePattern = <<"/", "a", "/", "b">>
    /\ gets[2].routePattern = <<"/", "a", "/", ":", "x">>
    /\ lastCall.routePattern = gets[2].routePattern
    /\ invoked = <<1>>
    /\ pc = "done"

\* C31: no step of dispatch or of a static-file callback calls writeHead on
\* a response whose headers were already sent (the call that the platform
\* answers with ERR_HTTP_HEADERS_SENT).
C31_HeadersWrittenOnce == exc # "ERR_HTTP_HEADERS_SENT"

\* A path lies inside the folder given to serveStaticFiles.
InsideRoot(path) ==
    LET root == PathNormalize(staticFolder)
    IN  \/ path = root
        \/ /\ Len(path) > Len(root) + 1
           /\ SubSeq(path, 1, Len(root)) = root
           /\ path[Len(root) + 1] = "/"

\* C32: every file the static resolver access-checks or streams lies inside
\* the configured root folder.
C32_StaticConfinedToRoot ==
    \A k \in DOMAIN fsOps :
        fsOps[k].op \in {"access", "createReadStream"} => InsideRoot(fsOps[k].path)

\* C33: a static request is answered 403 exactly when its own path has a
\* segment that begins with '.', whatever the root folder is.
C33_ForbiddenByRequestPath ==
    StaticAnswered =>
        (res.statusCode = 403 <=> HasDotSegment(Pathname(req.url)))

\* C34: the static resolver resolves the path that route matching used, the
\* path component of the request URL without its query string.
C34_StaticUsesMatchedPath ==
    IsStatic => Candidate = PathJoin(staticFolder, Pathname(req.url))

\* C35: at most one listener created by the router runs at any time, and
\* after close() none does.
C35_OneListener ==
    /\ Cardinality({k \in DOMAIN servers : servers[k].state = "listening"}) <= 1
    /\ lastLife.op = "close" => \A k \in DOMAIN servers : servers[k].state # "listening"

\* C36: a Content-Type the handler set before the headers were sent is the
\* one a following send() or json() sends.
C36_ContentTypeSurvives ==
    [][((IsCrStep("json") \/ IsCrStep("send"))
          /\ ~coreRes.res.headersSent
          /\ "Content-Type" \in DOMAIN coreRes.res.headers
          /\ ~crLast'.threw)
       => coreRes'.res.headers["Content-Type"] = coreRes.res.headers["Content-Type"]]_vars

====
